---- MODULE Spec2Model ----
(***************************************************************************)
(* Alt-character identification of groster: the single-layer pipeline of   *)
(* groster/services.py (identify_alts and the fetchers it gathers), the    *)
(* Blizzard API client's request loop of groster/http_client.py, the main  *)
(* election, and the two-layer pipeline of groster/characters.py.          *)
(*                                                                         *)
(* Conventions of the translation:                                         *)
(*   - a Python dict is a function on a finite domain; {} is <<>>;         *)
(*   - Python None is PyNone where a dict is expected and NoneTs where a   *)
(*     timestamp is expected;                                              *)
(*   - a realm slug is an opaque positive number (only its presence and    *)
(*     its identity are ever used by the code under study);                *)
(*   - a character name is one of NameSeq, compared as Python compares     *)
(*     str (ordinal), which for these names is the order of NameSeq.       *)
(***************************************************************************)
EXTENDS Integers, Sequences, FiniteSets, TLC

\* ------------------------------------------------------------------ bounds
MaxMembers == 3
MaxGroup == 3
MaxStamp == 3
MaxAchs == 3
MaxRows == 3
MaxArgs == 2
MaxCompLen == 2
MaxTsLen == 3
MaxRoster == 91
MaxRequests == 3
MaxCalls == 6

\* ------------------------------------------------------- program constants
LEVEL_10_ACHIEVEMENT_ID == 6

\* 0.8, kept as the fraction 4/5: similarity >= 0.8 is decided on integers.
ALT_SIMILARITY_THRESHOLD == <<4, 5>>

FINGERPRINT_ACHIEVEMENT_IDS ==
    {9670, 10693, 10691, 10689, 10687, 10685, 10682,
     10692, 10690, 10688, 10686, 10684, 10681, 11176}

\* len(fp) < 3: the reliability floor of the clustering loop.
MIN_FINGERPRINT_SIZE == 3

max_retries == 5

\* identify_alts gathers its tasks in batches of tasks_limit
tasks_limit == 90

\* ------------------------------------------------------------ Python values
NoneTs == -1
PyNone == [py_none |-> TRUE]
EmptyDict == <<>>

IsNone(x) == DOMAIN x = {"py_none"}

\* d.get(k, default) on a dict modelled as a function
Get(d, k, default) == IF k \in DOMAIN d THEN d[k] ELSE default

Range(s) == {s[i] : i \in DOMAIN s}

NameSeq == <<"A", "B", "C">>
Names == Range(NameSeq)

NameOrd(n) == CHOOSE i \in DOMAIN NameSeq : NameSeq[i] = n

\* Python's str comparison a < b
StrLess(a, b) == NameOrd(a) < NameOrd(b)

RECURSIVE SeqFromSet(_)
\* some enumeration of a finite set of integers, ascending
SeqFromSet(S) ==
    IF S = {} THEN <<>>
    ELSE LET m == CHOOSE x \in S : \A y \in S : x <= y
         IN  <<m>> \o SeqFromSet(S \ {m})

\* ------------------------------------------------------------- HTTP client
\* One reply of the server to one attempt of client.request():
\*   err       the attempt raised httpx.RequestError (no response)
\*   status    the status code of the response
\*   decodable response.json() succeeds
\*   body      the decoded body
Reply(err, status, decodable, body) ==
    [err |-> err, status |-> status, decodable |-> decodable, body |-> body]

RetryStatuses == {429, 500, 502, 503, 504}

IsSuccess(status) == status \in 200..299

\* BlizzardAPIClient._get_access_token: TRUE when a token is returned, FALSE
\* when the call raises.  cached: a non-expired token is held; oauth: the
\* reply of the OAuth host to the POST.
_get_access_token(cached, oauth) ==
    \/ cached
    \/ /\ ~oauth.err
       /\ IsSuccess(oauth.status)
       /\ oauth.decodable
       /\ Get(oauth.body, "access_token", "") # ""

RECURSIVE RequestAttempts(_, _)
\* the for-loop of _request from `attempt` on; replies[k] answers attempt k
RequestAttempts(replies, attempt) ==
    IF attempt > max_retries
    THEN [raised |-> FALSE, value |-> EmptyDict]
    ELSE LET r == replies[attempt] IN
         IF r.err
         THEN RequestAttempts(replies, attempt + 1)
         ELSE IF r.status \in RetryStatuses
         THEN RequestAttempts(replies, attempt + 1)
         ELSE IF ~IsSuccess(r.status)
         THEN [raised |-> FALSE, value |-> EmptyDict]
         ELSE IF ~r.decodable
         THEN [raised |-> TRUE, value |-> EmptyDict]
         ELSE [raised |-> FALSE, value |-> r.body]

\* BlizzardAPIClient._request: the token first (outside the try), then the
\* attempts.  The result is the returned dict, or raised = TRUE.
_request(tokenOk, replies) ==
    IF ~tokenOk
    THEN [raised |-> TRUE, value |-> EmptyDict]
    ELSE RequestAttempts(replies, 1)

\* ---------------------------------------------------------------- fetchers
\* A roster member, member["character"]: id, name, realm.slug
Member(id, name, realm) == [id |-> id, name |-> name, realm |-> realm]

\* One entry of the "achievements" list of the API body
Ach(id, ts) == [id |-> id, completed_timestamp |-> ts]

Truthy(ts) == ts # NoneTs /\ ts # 0

\* timestamps = {ach["id"]: ach.get("completed_timestamp") for ach in ... if
\* ach.get("id") in FINGERPRINT_ACHIEVEMENT_IDS}: the last entry of an id wins
FingerprintTimestamps(achs) ==
    LET ids == {achs[i].id : i \in DOMAIN achs} \cap FINGERPRINT_ACHIEVEMENT_IDS
        last(k) == CHOOSE i \in DOMAIN achs :
                       /\ achs[i].id = k
                       /\ \A j \in DOMAIN achs : achs[j].id = k => j <= i
    IN  [k \in ids |-> achs[last(k)].completed_timestamp]

\* next((ach.get("completed_timestamp") for ach in ... if ach.get("id") ==
\* LEVEL_10_ACHIEVEMENT_ID), None): the first entry wins
Level10Timestamp(achs) ==
    LET hits == {i \in DOMAIN achs : achs[i].id = LEVEL_10_ACHIEVEMENT_ID}
    IN  IF hits = {} THEN NoneTs
        ELSE achs[CHOOSE i \in hits : \A j \in hits : i <= j].completed_timestamp

\* the fingerprint without the test `if v`
FingerprintOfKeepsFalsy(timestamps) ==
    LET keys == {k \in DOMAIN timestamps : k # LEVEL_10_ACHIEVEMENT_ID}
        order == SeqFromSet(keys)
    IN  [i \in DOMAIN order |-> <<order[i], timestamps[order[i]]>>]

\* tuple(sorted((k, v) for k, v in timestamps.items()
\*              if v and k != LEVEL_10_ACHIEVEMENT_ID))
FingerprintOf(timestamps) ==
    LET keys == {k \in DOMAIN timestamps :
                    Truthy(timestamps[k]) /\ k # LEVEL_10_ACHIEVEMENT_ID}
        order == SeqFromSet(keys)
    IN  [i \in DOMAIN order |-> <<order[i], timestamps[order[i]]>>]

\* the timestamps dict: the fingerprint achievements, and the Level 10
\* achievement when its timestamp is truthy
TimestampsOf(achs) ==
    LET base == FingerprintTimestamps(achs)
        l10  == Level10Timestamp(achs)
    IN  IF Truthy(l10)
        THEN [k \in DOMAIN base \cup {LEVEL_10_ACHIEVEMENT_ID} |->
                 IF k = LEVEL_10_ACHIEVEMENT_ID THEN l10 ELSE base[k]]
        ELSE base

\* fetch_member_fingerprint once the request has returned `ach_data`
FingerprintResult(name, ach_data) ==
    LET achs == Get(ach_data, "achievements", <<>>) IN
    IF achs = <<>>
    THEN [name |-> name, fingerprint |-> <<>>, timestamps |-> EmptyDict]
    ELSE [name |-> name,
          fingerprint |-> FingerprintOf(TimestampsOf(achs)),
          timestamps |-> TimestampsOf(achs)]

\* `not name` (None and "" alike) and `not realm`, `not char_id` (None is 0)
MissingName(n) == n = ""
MissingNum(x) == x = 0

\* fetch_member_fingerprint(client, member): raised, or the returned value
fetch_member_fingerprint(member, tokenOk, replies) ==
    IF MissingName(member.name) \/ MissingNum(member.realm)
    THEN [raised |-> FALSE, value |-> PyNone]
    ELSE LET r == _request(tokenOk, replies) IN
         IF r.raised THEN r
         ELSE [raised |-> FALSE, value |-> FingerprintResult(member.name, r.value)]

\* fetch_member_pets_summary(client, member)
fetch_member_pets_summary(member, tokenOk, replies) ==
    IF MissingName(member.name) \/ MissingNum(member.realm) \/ MissingNum(member.id)
    THEN [raised |-> FALSE, value |-> PyNone]
    ELSE LET r == _request(tokenOk, replies) IN
         IF r.raised THEN r
         ELSE [raised |-> FALSE,
               value |-> [id |-> member.id, name |-> member.name,
                          realm |-> member.realm,
                          pets |-> Len(Get(r.value, "pets", <<>>))]]

\* fetch_member_mounts_summary(client, member)
fetch_member_mounts_summary(member, tokenOk, replies) ==
    IF MissingName(member.name) \/ MissingNum(member.realm) \/ MissingNum(member.id)
    THEN [raised |-> FALSE, value |-> PyNone]
    ELSE LET r == _request(tokenOk, replies) IN
         IF r.raised THEN r
         ELSE [raised |-> FALSE,
               value |-> [id |-> member.id, name |-> member.name,
                          realm |-> member.realm,
                          mounts |-> Len(Get(r.value, "mounts", <<>>))]]

\* ----------------------------------------------------------- main election
RECURSIVE FindMainLoopLastWins(_, _, _, _, _)
\* the for-loop with `timestamp <= min_timestamp`
FindMainLoopLastWins(group_, i, earliest_char, min_timestamp, inf) ==
    IF i > Len(group_) THEN earliest_char
    ELSE LET timestamp == Get(Get(group_[i], "timestamps", EmptyDict),
                              LEVEL_10_ACHIEVEMENT_ID, NoneTs)
         IN  IF timestamp # NoneTs /\ (inf \/ timestamp <= min_timestamp)
             THEN FindMainLoopLastWins(group_, i + 1, group_[i].name, timestamp, FALSE)
             ELSE FindMainLoopLastWins(group_, i + 1, earliest_char, min_timestamp, inf)

RECURSIVE FindMainLoop(_, _, _, _, _)
\* the for-loop of _find_main_in_group from position i on; inf: min_timestamp
\* is still float("inf"); earliest_char "" is None
FindMainLoop(group_, i, earliest_char, min_timestamp, inf) ==
    IF i > Len(group_) THEN earliest_char
    ELSE LET timestamp == Get(Get(group_[i], "timestamps", EmptyDict),
                              LEVEL_10_ACHIEVEMENT_ID, NoneTs)
         IN  IF timestamp # NoneTs /\ (inf \/ timestamp < min_timestamp)
             THEN FindMainLoop(group_, i + 1, group_[i].name, timestamp, FALSE)
             ELSE FindMainLoop(group_, i + 1, earliest_char, min_timestamp, inf)

\* _find_main_in_group(group): return earliest_char or group[0]["name"]
_find_main_in_group(group_) ==
    LET earliest_char == FindMainLoop(group_, 1, "", 0, TRUE)
    IN  IF earliest_char # "" THEN earliest_char ELSE group_[1].name

\* ------------------------------------------------- identify_alts (services)
\* res is classified by the first of "pets", "mounts", "fingerprint" it holds
ResultKind(res) ==
    IF IsNone(res) THEN "none"
    ELSE IF "pets" \in DOMAIN res THEN "pets"
    ELSE IF "mounts" \in DOMAIN res THEN "mounts"
    ELSE IF "fingerprint" \in DOMAIN res THEN "fingerprint"
    ELSE "other"

\* pet_summaries, mount_summaries, fingerprints_data: d[res["name"]] = res in
\* the order of all_results, so the last result of a name stays
ByName(results, kind) ==
    LET idx == {i \in DOMAIN results : ResultKind(results[i]) = kind}
        last(n) == CHOOSE i \in idx :
                       /\ results[i].name = n
                       /\ \A j \in idx : results[j].name = n => j <= i
    IN  [n \in {results[i].name : i \in idx} |-> results[last(n)]]

RECURSIVE SelectSeq2(_, _)
\* the members that are kept: `if not name: continue`
SelectSeq2(ms, i) ==
    IF i > Len(ms) THEN <<>>
    ELSE IF MissingName(ms[i].name) THEN SelectSeq2(ms, i + 1)
    ELSE <<ms[i]>> \o SelectSeq2(ms, i + 1)

\* all_char_data with the two collection counts put into the fingerprint
BuildCharDataCountsInFingerprint(ms, results) ==
    LET pet_summaries     == ByName(results, "pets")
        mount_summaries   == ByName(results, "mounts")
        fingerprints_data == ByName(results, "fingerprint")
        kept == SelectSeq2(ms, 1)
    IN  [i \in DOMAIN kept |->
            LET name == kept[i].name
                pets == Get(Get(pet_summaries, name, EmptyDict), "pets", 0)
                mounts == Get(Get(mount_summaries, name, EmptyDict), "mounts", 0)
            IN
            [id |-> kept[i].id,
             name |-> name,
             realm |-> kept[i].realm,
             pets |-> pets,
             mounts |-> mounts,
             fingerprint |->
                 Get(Get(fingerprints_data, name, EmptyDict), "fingerprint", <<>>)
                     \o <<<<0, pets>>, <<1, mounts>>>>,
             timestamps |->
                 Get(Get(fingerprints_data, name, EmptyDict), "timestamps", EmptyDict)]]

\* all_char_data of identify_alts
BuildCharData(ms, results) ==
    LET pet_summaries     == ByName(results, "pets")
        mount_summaries   == ByName(results, "mounts")
        fingerprints_data == ByName(results, "fingerprint")
        kept == SelectSeq2(ms, 1)
    IN  [i \in DOMAIN kept |->
            LET name == kept[i].name IN
            [id |-> kept[i].id,
             name |-> name,
             realm |-> kept[i].realm,
             pets |-> Get(Get(pet_summaries, name, EmptyDict), "pets", 0),
             mounts |-> Get(Get(mount_summaries, name, EmptyDict), "mounts", 0),
             fingerprint |->
                 Get(Get(fingerprints_data, name, EmptyDict), "fingerprint", <<>>),
             timestamps |->
                 Get(Get(fingerprints_data, name, EmptyDict), "timestamps", EmptyDict)]]

\* the comparison of the threshold made strict
SimilarityReachedStrict(intersection_size, union_size) ==
    IF union_size = 0 THEN TRUE
    ELSE intersection_size * ALT_SIMILARITY_THRESHOLD[2]
             > ALT_SIMILARITY_THRESHOLD[1] * union_size

\* similarity >= ALT_SIMILARITY_THRESHOLD, similarity being 1.0 on an empty
\* union and intersection_size / union_size otherwise
SimilarityReached(intersection_size, union_size) ==
    IF union_size = 0 THEN TRUE
    ELSE intersection_size * ALT_SIMILARITY_THRESHOLD[2]
             >= ALT_SIMILARITY_THRESHOLD[1] * union_size

\* the candidate's body without the skip of unreliable fingerprints
JoinsGroupNoFloor(base_fp, compare_fp) ==
    SimilarityReached(Cardinality(base_fp \cap compare_fp),
                      Cardinality(base_fp \cup compare_fp))

\* no candidate is ever skipped
SkippedNever(base_fp, compare_fp) == FALSE

\* `if len(base_fp) < 3 or len(compare_fp) < 3`: the candidate goes to
\* remaining_chars and the Jaccard computation is not run
Skipped(base_fp, compare_fp) ==
    \/ Cardinality(base_fp) < MIN_FINGERPRINT_SIZE
    \/ Cardinality(compare_fp) < MIN_FINGERPRINT_SIZE

\* the body of `for char_to_compare in unmatched_chars` for one candidate:
\* TRUE when the candidate is appended to current_group
JoinsGroup(base_fp, compare_fp) ==
    IF Skipped(base_fp, compare_fp)
    THEN FALSE
    ELSE SimilarityReached(Cardinality(base_fp \cap compare_fp),
                           Cardinality(base_fp \cup compare_fp))

RECURSIVE CompareLoopKeepsJoined(_, _, _, _, _)
\* the for-loop leaving a candidate that joined in the pool as well
CompareLoopKeepsJoined(base_fp, chars, i, current_group, remaining_chars) ==
    IF i > Len(chars)
    THEN [current_group |-> current_group, remaining_chars |-> remaining_chars]
    ELSE IF JoinsGroup(base_fp, Range(chars[i].fingerprint))
    THEN CompareLoopKeepsJoined(base_fp, chars, i + 1,
                                Append(current_group, chars[i]),
                                Append(remaining_chars, chars[i]))
    ELSE CompareLoopKeepsJoined(base_fp, chars, i + 1,
                                current_group, Append(remaining_chars, chars[i]))

RECURSIVE CompareLoopFirstOnly(_, _, _, _, _)
\* the for-loop ended by a break at the first candidate that joins
CompareLoopFirstOnly(base_fp, chars, i, current_group, remaining_chars) ==
    IF i > Len(chars)
    THEN [current_group |-> current_group, remaining_chars |-> remaining_chars]
    ELSE IF Len(current_group) = 1 /\ JoinsGroup(base_fp, Range(chars[i].fingerprint))
    THEN CompareLoopFirstOnly(base_fp, chars, i + 1,
                              Append(current_group, chars[i]), remaining_chars)
    ELSE CompareLoopFirstOnly(base_fp, chars, i + 1,
                              current_group, Append(remaining_chars, chars[i]))

RECURSIVE CompareLoopChained(_, _, _, _, _)
\* the for-loop comparing each candidate with the profile that joined last
CompareLoopChained(base_fp, chars, i, current_group, remaining_chars) ==
    IF i > Len(chars)
    THEN [current_group |-> current_group, remaining_chars |-> remaining_chars]
    ELSE IF JoinsGroup(Range(current_group[Len(current_group)].fingerprint),
                       Range(chars[i].fingerprint))
    THEN CompareLoopChained(base_fp, chars, i + 1,
                            Append(current_group, chars[i]), remaining_chars)
    ELSE CompareLoopChained(base_fp, chars, i + 1,
                            current_group, Append(remaining_chars, chars[i]))

RECURSIVE CompareLoop(_, _, _, _, _)
\* the for-loop over unmatched_chars from position i on
CompareLoop(base_fp, chars, i, current_group, remaining_chars) ==
    IF i > Len(chars)
    THEN [current_group |-> current_group, remaining_chars |-> remaining_chars]
    ELSE IF JoinsGroup(base_fp, Range(chars[i].fingerprint))
    THEN CompareLoop(base_fp, chars, i + 1,
                     Append(current_group, chars[i]), remaining_chars)
    ELSE CompareLoop(base_fp, chars, i + 1,
                     current_group, Append(remaining_chars, chars[i]))

\* main_character_map with the first profile of the group taken as its main
MainCharacterMapFirstMember(gs) ==
    LET idx == {g \in DOMAIN gs : gs[g] # <<>>}
        names == UNION {{gs[g][k].name : k \in DOMAIN gs[g]} : g \in idx}
        last(n) == CHOOSE g \in idx :
                       /\ \E k \in DOMAIN gs[g] : gs[g][k].name = n
                       /\ \A h \in idx :
                              (\E k \in DOMAIN gs[h] : gs[h][k].name = n) => h <= g
    IN  [n \in names |-> gs[last(n)][1].name]

\* main_character_map: a later group overwrites the entry of a name
MainCharacterMap(gs) ==
    LET idx == {g \in DOMAIN gs : gs[g] # <<>>}
        names == UNION {{gs[g][k].name : k \in DOMAIN gs[g]} : g \in idx}
        last(n) == CHOOSE g \in idx :
                       /\ \E k \in DOMAIN gs[g] : gs[g][k].name = n
                       /\ \A h \in idx :
                              (\E k \in DOMAIN gs[h] : gs[h][k].name = n) => h <= g
    IN  [n \in names |-> _find_main_in_group(gs[last(n)])]

\* alts_data: one record per entry of all_char_data, in its order
AltsData(chars, main_map) ==
    [i \in DOMAIN chars |->
        LET char_name == chars[i].name IN
        [id |-> chars[i].id,
         name |-> char_name,
         alt |-> char_name # Get(main_map, char_name, char_name),
         main |-> Get(main_map, char_name, char_name)]]

\* row a goes before row b in sort_values(by=["main", "name"])
RowBefore(a, b) ==
    \/ StrLess(a.main, b.main)
    \/ a.main = b.main /\ StrLess(a.name, b.name)

RECURSIVE InsertRow(_, _)
InsertRow(sorted, row) ==
    IF sorted = <<>> THEN <<row>>
    ELSE IF RowBefore(row, Head(sorted)) THEN <<row>> \o sorted
    ELSE <<Head(sorted)>> \o InsertRow(Tail(sorted), row)

RECURSIVE SortRows(_, _)
\* DataFrame(rows).sort_values(by=["main", "name"]), rows of equal key in
\* their order of arrival
SortRows(rows, i) ==
    IF i = 0 THEN <<>>
    ELSE InsertRow(SortRows(rows, i - 1), rows[i])

\* ------------------------------------------------------------------- state
VARIABLES
    members,             \* roster_data["members"], each reduced to its character
    servers,             \* servers[i]: what the API replies for member i
    oauth,               \* what the OAuth host replies to a token request
    api_token,           \* client._api_token is set and has not expired
    pc,                  \* position of identify_alts
    all_results,         \* results of the batches gathered so far
    all_char_data,
    unmatched_chars,
    groups,
    main_character_map,
    alts_data,           \* the list identify_alts returns
    alts_file,           \* the alts table on disk
    group,               \* the argument of a call of _find_main_in_group
    main_name,           \* what that call returned
    summaries,           \* characters.identify_alts: the kept members
    final_alt_groups,    \* characters.identify_alts
    unidentified_chars,  \* characters.identify_alts
    previous,            \* what the previous pass over the same data produced
    dashboard_file,      \* the dashboard table on disk
    client_closed,       \* update_roster: client.close() has run
    call,                \* the function called by itself and its arguments
    returned,            \* what that call returned, or the exception it raised
    tasks,               \* the coroutines of all_tasks: how many have started
                         \* and ended, and the batch being gathered
    requests,            \* the position of each concurrent _request call
    token_requests,      \* the POSTs sent to the OAuth token endpoint so far
    attempt,             \* _request: the attempts sent so far
    hash_file            \* the roster hash file on disk

inputVars == <<members, servers, oauth>>
fetchVars == <<api_token, all_results>>
clusterVars == <<all_char_data, unmatched_chars, groups>>
outVars == <<main_character_map, alts_data, alts_file>>
electVars == <<group, main_name>>
layerVars == <<summaries, final_alt_groups, unidentified_chars>>
updateVars == <<dashboard_file, client_closed>>
callVars == <<call, returned>>
asyncVars == <<tasks, requests, token_requests, attempt>>

vars == <<inputVars, fetchVars, clusterVars, outVars, electVars, layerVars,
          previous, updateVars, callVars, asyncVars, hash_file, pc>>

\* ------------------------------------------------------------------ inputs
\* the same reply at every attempt
Always(reply) == [k \in 1..max_retries |-> reply]

Ok(body) == Reply(FALSE, 200, TRUE, body)

Items(n) == [k \in 1..n |-> k]

\* a character whose three endpoints answer 200 with these data
Up(achs, npets, nmounts) ==
    [ach    |-> Always(Ok([achievements |-> achs])),
     pets   |-> Always(Ok([pets |-> Items(npets)])),
     mounts |-> Always(Ok([mounts |-> Items(nmounts)]))]

\* a character whose three endpoints answer every attempt with `reply`
Down(reply) ==
    [ach |-> Always(reply), pets |-> Always(reply), mounts |-> Always(reply)]

\* account-wide achievements `ids`, all completed at `ts`
FpAchs(ids, ts) ==
    LET order == SeqFromSet(ids) IN [i \in DOMAIN order |-> Ach(order[i], ts)]

Level10(ts) == <<Ach(LEVEL_10_ACHIEVEMENT_ID, ts)>>

Set2  == {9670, 10681}
Set4a == {9670, 10681, 10682, 10684}
Set4b == {9670, 10681, 10682, 10685}
Set5  == {9670, 10681, 10682, 10684, 10685}

\* The achievement lists of the checked rosters: below the floor (none, two),
\* at the threshold (4 of 5 shared), under it (3 of 5 shared), with and
\* without the Level 10 achievement, with entries the extractor drops.
AchLists ==
    { <<>>,
      FpAchs(Set2, 50) \o Level10(1),
      FpAchs(Set4a, 50) \o Level10(2),
      FpAchs(Set4b, 50) \o Level10(1),
      Level10(1) \o FpAchs(Set5, 50),
      <<Ach(7, 50), Ach(10686, NoneTs), Ach(10688, 0)>> \o FpAchs(Set5, 50) }

Unavailable == Reply(FALSE, 503, TRUE, EmptyDict)
NotFound    == Reply(FALSE, 404, TRUE, EmptyDict)
NoRoute     == Reply(TRUE, 0, FALSE, EmptyDict)
Garbled     == Reply(FALSE, 200, FALSE, EmptyDict)

TokenGranted == Ok([access_token |-> "t", expires_in |-> 3600])
TokenRefused == Reply(FALSE, 401, TRUE, EmptyDict)

HealthyServers == {Up(a, 2, 1) : a \in AchLists} \cup {Down(Unavailable)}

\* a character whose achievements endpoint answers every attempt with
\* `reply` while its collections are served
AchFails(reply) ==
    [ach    |-> Always(reply),
     pets   |-> Always(Ok([pets |-> Items(2)])),
     mounts |-> Always(Ok([mounts |-> Items(1)]))]

\* the ways a request fails: no connection, an error status, a status that
\* is retried until the attempts are used up, a body that is not JSON
FailingReplies == {NoRoute, NotFound, Unavailable, Garbled}

FaultyServers ==
    {Up(Level10(1) \o FpAchs(Set5, 50), 2, 1),
     Up(FpAchs(Set4b, 50) \o Level10(1), 2, 1)}
        \cup {AchFails(r) : r \in FailingReplies}

\* the k-th member of a name lives on realm k
RealmOf(names, i) == Cardinality({j \in 1..i : names[j] = names[i]})

Rosters ==
    UNION {{[i \in 1..n |-> Member(i, names[i], RealmOf(names, i))] :
               names \in [1..n -> Names]} : n \in 0..MaxMembers}

\* nothing fetched, nothing computed, nothing written
BlankData ==
    /\ all_results = <<>>
    /\ all_char_data = <<>>
    /\ unmatched_chars = <<>>
    /\ groups = <<>>
    /\ main_character_map = EmptyDict
    /\ alts_data = <<>>
    /\ alts_file = [written |-> FALSE, rows |-> <<>>]
    /\ summaries = <<>>
    /\ final_alt_groups = <<>>
    /\ unidentified_chars = <<>>
    /\ previous = [ran |-> FALSE, groups |-> <<>>, alts_data |-> <<>>]
    /\ dashboard_file = [written |-> FALSE]
    /\ client_closed = FALSE
    /\ tasks = [i |-> 0, started |-> 0, ended |-> 0]
    /\ requests = <<>>
    /\ token_requests = 0
    /\ attempt = 0
    /\ hash_file = [exists |-> FALSE]

\* no token held yet, and nothing fetched, computed or written
Blank ==
    /\ api_token = FALSE
    /\ BlankData

\* no function is called by itself
NoCall ==
    /\ call = [fn |-> ""]
    /\ returned = [raised |-> ""]

\* identify_alts is entered with one of `rosters`, against these servers
InitFrom(rosters, serverKinds, oauthReplies) ==
    /\ members \in rosters
    /\ servers \in [DOMAIN members -> serverKinds]
    /\ oauth \in oauthReplies
    /\ pc = "start"
    /\ Blank
    /\ NoCall
    /\ group = <<>>
    /\ main_name = ""

InitWith(serverKinds, oauthReplies) == InitFrom(Rosters, serverKinds, oauthReplies)

Init == InitWith(HealthyServers, {TokenGranted})

\* ----------------------------------------------------------------- actions
\* the early return after an empty table has been written
ReturnEmptyWritesTable ==
    /\ pc = "start"
    /\ members = <<>>
    /\ alts_file' = [written |-> TRUE, rows |-> <<>>]
    /\ pc' = "done"
    /\ UNCHANGED <<inputVars, fetchVars, clusterVars, main_character_map,
                   alts_data, electVars, layerVars>>
    /\ UNCHANGED <<previous, updateVars, callVars>>
    /\ UNCHANGED <<asyncVars, hash_file>>

\* `if not members: return [], None`
ReturnEmpty ==
    /\ pc = "start"
    /\ members = <<>>
    /\ pc' = "done"
    /\ UNCHANGED <<inputVars, fetchVars, clusterVars, outVars, electVars, layerVars>>
    /\ UNCHANGED <<previous, updateVars, callVars>>
    /\ UNCHANGED <<asyncVars, hash_file>>

\* all_tasks[t]: three tasks per member, in the order fingerprint, pets, mounts
TaskResult(t, tokenOk) ==
    LET i == ((t - 1) \div 3) + 1
        k == (t - 1) % 3
    IN  IF k = 0 THEN fetch_member_fingerprint(members[i], tokenOk, servers[i].ach)
        ELSE IF k = 1
        THEN fetch_member_pets_summary(members[i], tokenOk, servers[i].pets)
        ELSE fetch_member_mounts_summary(members[i], tokenOk, servers[i].mounts)

\* one round of `for i in range(0, len(all_tasks), tasks_limit)`: the batch
\* is gathered; an exception of a task leaves identify_alts
FetchBatch ==
    /\ pc \in {"start", "fetch"}
    /\ members # <<>>
    /\ LET total   == 3 * Len(members)
           first   == Len(all_results) + 1
           last    == IF first + tasks_limit - 1 < total
                      THEN first + tasks_limit - 1 ELSE total
           tokenOk == _get_access_token(api_token, oauth)
           batch   == [t \in 1..(last - first + 1) |->
                          TaskResult(first + t - 1, tokenOk)]
       IN  /\ api_token' = tokenOk
           /\ IF \E t \in DOMAIN batch : batch[t].raised
              THEN /\ pc' = "raised"
                   /\ UNCHANGED all_results
              ELSE /\ all_results' =
                          all_results \o [t \in DOMAIN batch |-> batch[t].value]
                   /\ pc' = IF last < total THEN "fetch" ELSE "fetched"
    /\ UNCHANGED <<inputVars, clusterVars, outVars, electVars, layerVars>>
    /\ UNCHANGED <<previous, updateVars, callVars>>
    /\ UNCHANGED <<asyncVars, hash_file>>

\* the same without `groups = []`: the groups of an earlier pass stay
BuildKeepsGroups ==
    /\ pc = "fetched"
    /\ all_char_data' = BuildCharData(members, all_results)
    /\ unmatched_chars' = all_char_data'
    /\ groups' = groups
    /\ pc' = "cluster"
    /\ UNCHANGED <<inputVars, fetchVars, outVars, electVars, layerVars>>
    /\ UNCHANGED <<previous, updateVars, callVars>>
    /\ UNCHANGED <<asyncVars, hash_file>>

\* the summaries by name, all_char_data, and the start of the clustering
Build ==
    /\ pc = "fetched"
    /\ all_char_data' = BuildCharData(members, all_results)
    /\ unmatched_chars' = all_char_data'
    /\ groups' = <<>>
    /\ pc' = "cluster"
    /\ UNCHANGED <<inputVars, fetchVars, outVars, electVars, layerVars>>
    /\ UNCHANGED <<previous, updateVars, callVars>>
    /\ UNCHANGED <<asyncVars, hash_file>>

\* one round with the base read at the head of the pool and left there
ClusterStepKeepsBase ==
    /\ pc = "cluster"
    /\ unmatched_chars # <<>>
    /\ LET base_char == Head(unmatched_chars)
           base_fp   == Range(base_char.fingerprint)
           out == CompareLoop(base_fp, unmatched_chars, 1, <<base_char>>, <<>>)
       IN  /\ groups' = Append(groups, out.current_group)
           /\ unmatched_chars' = out.remaining_chars
    /\ UNCHANGED all_char_data
    /\ UNCHANGED <<inputVars, fetchVars, outVars, electVars, layerVars, pc>>
    /\ UNCHANGED <<previous, updateVars, callVars>>
    /\ UNCHANGED <<asyncVars, hash_file>>

\* one round of `while unmatched_chars`
ClusterStep ==
    /\ pc = "cluster"
    /\ unmatched_chars # <<>>
    /\ LET base_char == Head(unmatched_chars)
           base_fp   == Range(base_char.fingerprint)
           out == CompareLoop(base_fp, Tail(unmatched_chars), 1,
                              <<base_char>>, <<>>)
       IN  /\ groups' = Append(groups, out.current_group)
           /\ unmatched_chars' = out.remaining_chars
    /\ UNCHANGED all_char_data
    /\ UNCHANGED <<inputVars, fetchVars, outVars, electVars, layerVars, pc>>
    /\ UNCHANGED <<previous, updateVars, callVars>>
    /\ UNCHANGED <<asyncVars, hash_file>>

\* after the loop: the mains, alts_data, the sorted table written, the return;
\* DataFrame([]) has no column "main", so sort_values raises KeyError when
\* alts_data is empty
Finish ==
    /\ pc = "cluster"
    /\ unmatched_chars = <<>>
    /\ main_character_map' = MainCharacterMap(groups)
    /\ alts_data' = AltsData(all_char_data, main_character_map')
    /\ IF alts_data' = <<>>
       THEN /\ pc' = "raised"
            /\ UNCHANGED alts_file
       ELSE /\ alts_file' = [written |-> TRUE,
                             rows |-> SortRows(alts_data', Len(alts_data'))]
            /\ pc' = "done"
    /\ UNCHANGED <<inputVars, fetchVars, clusterVars, electVars, layerVars>>
    /\ UNCHANGED <<previous, updateVars, callVars>>
    /\ UNCHANGED <<asyncVars, hash_file>>

Next ==
    \/ ReturnEmpty
    \/ FetchBatch
    \/ Build
    \/ ClusterStep
    \/ Finish

Spec == Init /\ [][Next]_vars

\* the same program against servers that fail
InitFaults == InitWith(FaultyServers, {TokenGranted, TokenRefused})

SpecFaults == InitFaults /\ [][Next]_vars

\* the clustering, the election and the records are run once more on the
\* results already fetched; what the first pass produced is kept aside
RunAgain ==
    /\ pc = "done"
    /\ members # <<>>
    /\ ~previous.ran
    /\ previous' = [ran |-> TRUE, groups |-> groups, alts_data |-> alts_data]
    /\ pc' = "fetched"
    /\ UNCHANGED <<inputVars, fetchVars, clusterVars, outVars, electVars,
                   layerVars, updateVars, callVars>>
    /\ UNCHANGED <<asyncVars, hash_file>>

TwiceServers ==
    {Up(Level10(1) \o FpAchs(Set5, 50), 2, 1),
     Up(FpAchs(Set4a, 50) \o Level10(2), 2, 1),
     Up(FpAchs(Set4b, 50) \o Level10(1), 3, 1),
     Up(FpAchs(Set2, 50), 1, 1)}

InitTwice == InitWith(TwiceServers, {TokenGranted})

NextTwice ==
    \/ Next
    \/ RunAgain

SpecTwice == InitTwice /\ [][NextTwice]_vars

\* the clustering loop and what follows it are straight-line code with no
\* await: once entered, a round that can be taken is taken, and so is the
\* step after the loop
SpecLive ==
    /\ InitTwice
    /\ [][Next]_vars
    /\ WF_vars(ClusterStep)
    /\ WF_vars(Finish)

\* characters of two accounts, with few or many pets and mounts
CountServers ==
    {Up(a, c[1], c[2]) :
        a \in {Level10(1) \o FpAchs(Set5, 50), FpAchs(Set4a, 50) \o Level10(2)},
        c \in {<<2, 1>>, <<3, 2>>}}

\* identify_alts is run once more on the same roster after the pet and mount
\* collections of the characters have changed; what the first run produced
\* is kept aside
RunOtherCounts ==
    /\ pc = "done"
    /\ members # <<>>
    /\ ~previous.ran
    /\ previous' = [ran |-> TRUE, groups |-> groups, alts_data |-> alts_data]
    /\ \E other \in [DOMAIN members -> CountServers] :
           /\ \A i \in DOMAIN members : other[i].ach = servers[i].ach
           /\ servers' = other
    /\ all_results' = <<>>
    /\ all_char_data' = <<>>
    /\ unmatched_chars' = <<>>
    /\ groups' = <<>>
    /\ main_character_map' = EmptyDict
    /\ alts_data' = <<>>
    /\ pc' = "start"
    /\ UNCHANGED <<members, oauth, api_token, alts_file, electVars, layerVars,
                   updateVars, callVars>>
    /\ UNCHANGED <<asyncVars, hash_file>>

InitCounts == InitWith(CountServers, {TokenGranted})

NextCounts ==
    \/ Next
    \/ RunOtherCounts

SpecCounts == InitCounts /\ [][NextCounts]_vars

\* rosters with members that lack a name (name "") or a realm (realm 0)
MalformedRosters ==
    UNION {{[i \in 1..n |-> Member(i, names[i],
                                   IF placed[i] THEN RealmOf(names, i) ELSE 0)] :
               names \in [1..n -> Names \cup {""}], placed \in [1..n -> BOOLEAN]} :
           n \in 0..MaxMembers}

MalformedServers ==
    {Up(Level10(1) \o FpAchs(Set5, 50), 2, 1),
     Up(FpAchs(Set4b, 50) \o Level10(2), 3, 1)}

InitMalformed == InitFrom(MalformedRosters, MalformedServers, {TokenGranted})

SpecMalformed == InitMalformed /\ [][Next]_vars

\* ----------------------------------------- identify_alts (characters.py)
\* requests.get, raise_for_status and response.json() of one fetcher end in
\* a requests RequestException: no connection, a 4xx or 5xx status, or a
\* body that is not JSON
RequestException(reply) ==
    reply.err \/ reply.status \in 400..599 \/ ~reply.decodable

\* _fetch_pets_summary(character_info)
_fetch_pets_summary(member, reply) ==
    IF RequestException(reply)
    THEN [id |-> member.id, name |-> member.name, pets |-> 0]
    ELSE [id |-> member.id, name |-> member.name, realm |-> member.realm,
          pets |-> Len(Get(reply.body, "pets", <<>>))]

\* _fetch_mounts_summary(character_info)
_fetch_mounts_summary(member, reply) ==
    IF RequestException(reply)
    THEN [id |-> member.id, name |-> member.name, mounts |-> 0]
    ELSE [id |-> member.id, name |-> member.name, realm |-> member.realm,
          mounts |-> Len(Get(reply.body, "mounts", <<>>))]

\* _fetch_achievement_fingerprint(character_info)
_fetch_achievement_fingerprint(name, reply) ==
    IF RequestException(reply) THEN PyNone
    ELSE LET achs == Get(reply.body, "achievements", <<>>) IN
         [name |-> name,
          fingerprint |-> FingerprintOf(TimestampsOf(achs)),
          timestamps |-> TimestampsOf(achs)]

\* {r["name"]: r for r in results if r}
LastByName(results) ==
    LET last(n) == CHOOSE i \in DOMAIN results :
                       /\ results[i].name = n
                       /\ \A j \in DOMAIN results : results[j].name = n => j <= i
    IN  [n \in {results[i].name : i \in DOMAIN results} |-> results[last(n)]]

RECURSIVE Summaries(_, _, _, _)
\* the loop that builds `summaries` from position i on
Summaries(ms, i, pet_summaries, mount_summaries) ==
    IF i > Len(ms) THEN <<>>
    ELSE IF MissingName(ms[i].name)
                \/ MissingNum(ms[i].id) \/ MissingNum(ms[i].realm)
    THEN Summaries(ms, i + 1, pet_summaries, mount_summaries)
    ELSE <<[id |-> ms[i].id,
            name |-> ms[i].name,
            realm |-> ms[i].realm,
            pets |-> Get(Get(pet_summaries, ms[i].name, EmptyDict), "pets", 0),
            mounts |-> Get(Get(mount_summaries, ms[i].name, EmptyDict),
                           "mounts", 0)]>>
             \o Summaries(ms, i + 1, pet_summaries, mount_summaries)

\* the key of groupby(["mounts", "pets"]) and the order of its groups
StatsKey(row) == <<row.mounts, row.pets>>

StatsLess(a, b) == a[1] < b[1] \/ (a[1] = b[1] /\ a[2] < b[2])

RECURSIVE SortStats(_)
SortStats(S) ==
    IF S = {} THEN <<>>
    ELSE LET m == CHOOSE x \in S : \A y \in S \ {x} : StatsLess(x, y)
         IN  <<m>> \o SortStats(S \ {m})

\* grouped_by_stats: one list of rows per key, keys ascending, the rows of
\* a key in their order
GroupedByStats(rows) ==
    LET keys == SortStats({StatsKey(rows[i]) : i \in DOMAIN rows})
    IN  [g \in DOMAIN keys |->
            LET Has(row) == StatsKey(row) = keys[g] IN SelectSeq(rows, Has)]

RECURSIVE ManyOf(_)
\* the lists of more than one row, in order
ManyOf(lists) ==
    IF lists = <<>> THEN <<>>
    ELSE IF Len(Head(lists)) > 1 THEN <<Head(lists)>> \o ManyOf(Tail(lists))
    ELSE ManyOf(Tail(lists))

RECURSIVE SinglesOf(_)
\* the rows that are alone in their list, in order
SinglesOf(lists) ==
    IF lists = <<>> THEN <<>>
    ELSE IF Len(Head(lists)) > 1 THEN SinglesOf(Tail(lists))
    ELSE <<Head(lists)[1]>> \o SinglesOf(Tail(lists))

\* str(n) for n >= 0, as character codes
RECURSIVE StrOfInt(_)
StrOfInt(n) ==
    IF n < 10 THEN <<48 + n>> ELSE StrOfInt(n \div 10) \o <<48 + (n % 10)>>

\* str((k, v))
StrOfPair(pair) == <<40>> \o StrOfInt(pair[1]) \o <<44, 32>>
                       \o StrOfInt(pair[2]) \o <<41>>

RECURSIVE StrOfPairs(_)
\* the pairs of a tuple joined by ", "
StrOfPairs(fp) ==
    IF Len(fp) = 1 THEN StrOfPair(fp[1])
    ELSE StrOfPair(fp[1]) \o <<44, 32>> \o StrOfPairs(Tail(fp))

\* str(fingerprint) of a tuple of pairs: "()", "((k, v),)", "((k, v), ...)"
StrOfFingerprint(fp) ==
    IF fp = <<>> THEN <<40, 41>>
    ELSE IF Len(fp) = 1 THEN <<40>> \o StrOfPair(fp[1]) \o <<44, 41>>
    ELSE <<40>> \o StrOfPairs(fp) \o <<41>>

\* a < b on str
RECURSIVE CodesLess(_, _)
CodesLess(a, b) ==
    IF b = <<>> THEN FALSE
    ELSE IF a = <<>> THEN TRUE
    ELSE IF Head(a) # Head(b) THEN Head(a) < Head(b)
    ELSE CodesLess(Tail(a), Tail(b))

RECURSIVE SortStrs(_)
SortStrs(S) ==
    IF S = {} THEN <<>>
    ELSE LET m == CHOOSE x \in S : \A y \in S \ {x} : CodesLess(x, y)
         IN  <<m>> \o SortStrs(S \ {m})

\* the reply that answers a request for a character of this name and realm
ServerFor(name, realm) ==
    servers[CHOOSE i \in DOMAIN members :
                members[i].name = name /\ members[i].realm = realm]

RECURSIVE FingerprintsData(_, _)
\* fingerprints_data: the fingerprints fetched for chars[i..], None dropped,
\* each updated with the first unidentified summary of its name
FingerprintsData(chars, i) ==
    IF i > Len(chars) THEN <<>>
    ELSE LET r == _fetch_achievement_fingerprint(
                      chars[i].name,
                      ServerFor(chars[i].name, chars[i].realm).ach[1])
             first == CHOOSE k \in DOMAIN chars :
                          /\ chars[k].name = chars[i].name
                          /\ \A j \in DOMAIN chars :
                                 chars[j].name = chars[i].name => k <= j
             summary_data == chars[first]
         IN  IF IsNone(r) THEN FingerprintsData(chars, i + 1)
             ELSE <<[name |-> summary_data.name,
                     fingerprint |-> r.fingerprint,
                     timestamps |-> r.timestamps,
                     id |-> summary_data.id,
                     realm |-> summary_data.realm,
                     pets |-> summary_data.pets,
                     mounts |-> summary_data.mounts,
                     fingerprint_str |-> StrOfFingerprint(r.fingerprint)]>>
                      \o FingerprintsData(chars, i + 1)

RECURSIVE FingerprintGroups(_)
\* what the groups by fingerprint_str add to final_alt_groups: the group
\* itself when it has several rows of 3 entries or more, else its rows one
\* by one
FingerprintGroups(lists) ==
    IF lists = <<>> THEN <<>>
    ELSE LET g == Head(lists) IN
         IF Len(g) > 1 /\ Len(g[1].fingerprint) >= MIN_FINGERPRINT_SIZE
         THEN <<g>> \o FingerprintGroups(Tail(lists))
         ELSE [k \in DOMAIN g |-> <<g[k]>>] \o FingerprintGroups(Tail(lists))

\* the rows whose fingerprint_str is not "()", grouped by fingerprint_str,
\* keys ascending
GroupedByFingerprint(rows) ==
    LET NotEmpty(row) == row.fingerprint_str # <<40, 41>>
        kept == SelectSeq(rows, NotEmpty)
        keys == SortStrs({kept[i].fingerprint_str : i \in DOMAIN kept})
    IN  [g \in DOMAIN keys |->
            LET Has(row) == row.fingerprint_str = keys[g] IN SelectSeq(kept, Has)]

\* `if not members: return`
ReturnEmptyLayers ==
    /\ pc = "start"
    /\ members = <<>>
    /\ pc' = "done"
    /\ UNCHANGED <<inputVars, fetchVars, clusterVars, outVars, electVars,
                   layerVars>>
    /\ UNCHANGED <<previous, updateVars, callVars>>
    /\ UNCHANGED <<asyncVars, hash_file>>

\* layer 1: the collection summaries, `summaries`, the groups by
\* (mounts, pets); grouping an empty frame raises KeyError
Layer1 ==
    /\ pc = "start"
    /\ members # <<>>
    /\ LET pet_summaries ==
               LastByName([i \in DOMAIN members |->
                              _fetch_pets_summary(members[i], servers[i].pets[1])])
           mount_summaries ==
               LastByName([i \in DOMAIN members |->
                              _fetch_mounts_summary(members[i], servers[i].mounts[1])])
           kept == Summaries(members, 1, pet_summaries, mount_summaries)
       IN  /\ summaries' = kept
           /\ final_alt_groups' = ManyOf(GroupedByStats(kept))
           /\ unidentified_chars' = SinglesOf(GroupedByStats(kept))
           /\ pc' = IF kept = <<>> THEN "raised" ELSE "layer1"
    /\ UNCHANGED <<inputVars, fetchVars, clusterVars, outVars, electVars>>
    /\ UNCHANGED <<previous, updateVars, callVars>>
    /\ UNCHANGED <<asyncVars, hash_file>>

\* layer 2: the fingerprints of the unidentified characters and their groups
Layer2 ==
    /\ pc = "layer1"
    /\ final_alt_groups' =
           final_alt_groups
               \o FingerprintGroups(
                      GroupedByFingerprint(FingerprintsData(unidentified_chars, 1)))
    /\ pc' = "layer2"
    /\ UNCHANGED <<inputVars, fetchVars, clusterVars, outVars, electVars,
                   summaries, unidentified_chars>>
    /\ UNCHANGED <<previous, updateVars, callVars>>
    /\ UNCHANGED <<asyncVars, hash_file>>

\* the mains, alts_data and the sorted table
FinishLayers ==
    /\ pc = "layer2"
    /\ LET m == MainCharacterMap(final_alt_groups)
           names == {summaries[i].name : i \in DOMAIN summaries}
       IN  main_character_map' =
               [n \in names \cup DOMAIN m |-> IF n \in DOMAIN m THEN m[n] ELSE n]
    /\ alts_data' = AltsData(summaries, main_character_map')
    /\ alts_file' = [written |-> TRUE,
                     rows |-> SortRows(alts_data', Len(alts_data'))]
    /\ pc' = "done"
    /\ UNCHANGED <<inputVars, fetchVars, clusterVars, electVars, layerVars>>
    /\ UNCHANGED <<previous, updateVars, callVars>>
    /\ UNCHANGED <<asyncVars, hash_file>>

\* a character whose pets and mounts requests are answered with `reply`
CollectionsFail(achs, reply) ==
    [ach    |-> Always(Ok([achievements |-> achs])),
     pets   |-> Always(reply),
     mounts |-> Always(reply)]

LayerServers ==
    {Up(Level10(1) \o FpAchs(Set5, 50), 2, 1),
     Up(Level10(2) \o FpAchs(Set5, 50), 3, 1),
     Up(FpAchs(Set4b, 50), 3, 1),
     Up(FpAchs(Set2, 50) \o Level10(1), 1, 2),
     Up(<<>>, 0, 0),
     CollectionsFail(Level10(1) \o FpAchs(Set4a, 50), NotFound),
     Down(NoRoute)}

InitLayers == InitWith(LayerServers, {TokenGranted})

NextLayers ==
    \/ ReturnEmptyLayers
    \/ Layer1
    \/ Layer2
    \/ FinishLayers

SpecLayers == InitLayers /\ [][NextLayers]_vars

\* --------------------------------------------- _find_main_in_group by itself
\* what _find_main_in_group reads of a profile: its name and, when it has
\* them, its timestamps (the groups of the first layer of characters.py hold
\* summaries without timestamps).  Names are never empty: both identify_alts
\* drop a member without a name before any group is made.
GroupProfiles ==
    {[name |-> n] : n \in Names}
        \cup {[name |-> n, timestamps |-> EmptyDict] : n \in Names}
        \cup {[name |-> n,
               timestamps |-> [k \in {LEVEL_10_ACHIEVEMENT_ID} |-> t]] :
                  n \in Names, t \in 1..MaxStamp}

InitMain ==
    /\ members = <<>>
    /\ servers = <<>>
    /\ oauth = TokenGranted
    /\ pc = "elect"
    /\ Blank
    /\ NoCall
    /\ group \in UNION {[1..n -> GroupProfiles] : n \in 1..MaxGroup}
    /\ main_name = ""

FindMain ==
    /\ pc = "elect"
    /\ main_name' = _find_main_in_group(group)
    /\ pc' = "elected"
    /\ UNCHANGED <<inputVars, fetchVars, clusterVars, outVars, layerVars, group>>
    /\ UNCHANGED <<previous, updateVars, callVars>>
    /\ UNCHANGED <<asyncVars, hash_file>>

NextMain == FindMain

SpecMain == InitMain /\ [][NextMain]_vars

\* -------------------------------------------- the fingerprint extractors alone
\* what the API reports of one achievement: completed at 1 or 2, at 0, or not
\* completed (no completed_timestamp)
AchStamps == {NoneTs, 0, 1, 2}

\* a fingerprint achievement, the Level 10 achievement, and one of neither kind
AchIds == {9670, 10681, 10682, LEVEL_10_ACHIEVEMENT_ID, 7}

\* the "achievements" lists of a character: every achievement at most once,
\* in any order
AchievementLists ==
    UNION {{achs \in [1..n -> {Ach(id, ts) : id \in AchIds, ts \in AchStamps}] :
               \A i, j \in 1..n : i # j => achs[i].id # achs[j].id} :
           n \in 0..MaxAchs}

InitFingerprint ==
    /\ members = <<Member(1, "A", 1)>>
    /\ servers \in {<<Up(achs, 2, 1)>> : achs \in AchievementLists}
    /\ oauth = TokenGranted
    /\ pc = "extract"
    /\ Blank
    /\ NoCall
    /\ group = <<>>
    /\ main_name = ""

\* fetch_member_fingerprint(client, member) of services.py
FetchFingerprint ==
    /\ pc = "extract"
    /\ all_results' =
           <<fetch_member_fingerprint(members[1], TRUE, servers[1].ach).value>>
    /\ pc' = "extracted"
    /\ UNCHANGED <<inputVars, api_token, clusterVars, outVars, electVars, layerVars>>
    /\ UNCHANGED <<previous, updateVars, callVars>>
    /\ UNCHANGED <<asyncVars, hash_file>>

\* _fetch_achievement_fingerprint(character_info) of characters.py
FetchFingerprintLayers ==
    /\ pc = "extract"
    /\ summaries' =
           <<_fetch_achievement_fingerprint(members[1].name, servers[1].ach[1])>>
    /\ pc' = "extracted"
    /\ UNCHANGED <<inputVars, fetchVars, clusterVars, outVars, electVars,
                   final_alt_groups, unidentified_chars>>
    /\ UNCHANGED <<previous, updateVars, callVars>>
    /\ UNCHANGED <<asyncVars, hash_file>>

NextFingerprint ==
    \/ FetchFingerprint
    \/ FetchFingerprintLayers

SpecFingerprint == InitFingerprint /\ [][NextFingerprint]_vars

\* ------------------------------------------------------------ update_roster
\* an exception of this type and message leaves the function
Raise(type, message) == [raised |-> type, message |-> message]

\* what the call of identify_alts hands back as alts_data: nothing, or one
\* record per member of the roster
IdentifiedAlts ==
    {<<>>,
     [i \in DOMAIN members |->
         [id |-> members[i].id, name |-> members[i].name,
          alt |-> FALSE, main |-> members[i].name]]}

\* update_roster is entered, with or without the credentials in the
\* environment
InitUpdate ==
    /\ members \in Rosters
    /\ servers = <<>>
    /\ oauth = TokenGranted
    /\ pc = "update"
    /\ Blank
    /\ call \in {[fn |-> "update_roster", credentials |-> c] : c \in BOOLEAN}
    /\ returned = [raised |-> ""]
    /\ group = <<>>
    /\ main_name = ""

\* the credentials are read; without them RuntimeError is raised before the
\* client exists
UpdateStart ==
    /\ pc = "update"
    /\ IF call.credentials
       THEN /\ pc' = "prepare"
            /\ UNCHANGED returned
       ELSE /\ pc' = "raised"
            /\ returned' = Raise("RuntimeError", "Missing credentials")
    /\ UNCHANGED <<inputVars, fetchVars, clusterVars, outVars, electVars,
                   layerVars, previous, updateVars, call>>
    /\ UNCHANGED <<asyncVars, hash_file>>

\* ranks, classes, races, roster details and links: they are saved, or one
\* of the calls raises
Prepare ==
    /\ pc = "prepare"
    /\ \E ok \in BOOLEAN :
           IF ok
           THEN /\ pc' = "identify"
                /\ UNCHANGED returned
           ELSE /\ pc' = "finally"
                /\ returned' = Raise("Exception", "roster data")
    /\ UNCHANGED <<inputVars, fetchVars, clusterVars, outVars, electVars,
                   layerVars, previous, updateVars, call>>
    /\ UNCHANGED <<asyncVars, hash_file>>

\* alts_data, all_raw_pets, all_raw_mounts = await identify_alts(...)
IdentifyAlts ==
    /\ pc = "identify"
    /\ \/ /\ alts_data' \in IdentifiedAlts
          /\ pc' = "check"
          /\ UNCHANGED returned
       \/ /\ pc' = "finally"
          /\ returned' = Raise("Exception", "identify_alts")
          /\ UNCHANGED alts_data
    /\ UNCHANGED <<inputVars, fetchVars, clusterVars, main_character_map,
                   alts_file, electVars, layerVars, previous, updateVars, call>>
    /\ UNCHANGED <<asyncVars, hash_file>>

\* the check of alts_data left out
CheckAltsSkipped ==
    /\ pc = "check"
    /\ pc' = "save"
    /\ UNCHANGED returned
    /\ UNCHANGED <<inputVars, fetchVars, clusterVars, outVars, electVars,
                   layerVars, previous, updateVars, call>>
    /\ UNCHANGED <<asyncVars, hash_file>>

\* if not alts_data: raise RuntimeError("Failed to identify alts")
CheckAlts ==
    /\ pc = "check"
    /\ IF alts_data = <<>>
       THEN /\ pc' = "finally"
            /\ returned' = Raise("RuntimeError", "Failed to identify alts")
       ELSE /\ pc' = "save"
            /\ UNCHANGED returned
    /\ UNCHANGED <<inputVars, fetchVars, clusterVars, outVars, electVars,
                   layerVars, previous, updateVars, call>>
    /\ UNCHANGED <<asyncVars, hash_file>>

\* repo.save_alts_data writes the records as handed over, then the raw pets
\* and mounts are saved
SaveAlts ==
    /\ pc = "save"
    /\ alts_file' = [written |-> TRUE, rows |-> alts_data]
    /\ pc' = "dashboard"
    /\ UNCHANGED <<inputVars, fetchVars, clusterVars, main_character_map,
                   alts_data, electVars, layerVars, previous, updateVars,
                   callVars>>
    /\ UNCHANGED <<asyncVars, hash_file>>

\* generate_dashboard writes the dashboard, or raises RuntimeError when a
\* source table is missing or unreadable
GenerateDashboard ==
    /\ pc = "dashboard"
    /\ \E ok \in BOOLEAN :
           IF ok
           THEN /\ dashboard_file' = [written |-> TRUE]
                /\ pc' = "summary"
                /\ UNCHANGED returned
           ELSE /\ pc' = "finally"
                /\ returned' = Raise("RuntimeError", "Failed to generate dashboard")
                /\ UNCHANGED dashboard_file
    /\ UNCHANGED <<inputVars, fetchVars, clusterVars, outVars, electVars,
                   layerVars, previous, client_closed, call>>
    /\ UNCHANGED <<asyncVars, hash_file>>

\* summary_report prints; it catches what reading the alts table raises
SummaryReport ==
    /\ pc = "summary"
    /\ pc' = "finally"
    /\ UNCHANGED <<inputVars, fetchVars, clusterVars, outVars, electVars,
                   layerVars, previous, updateVars, callVars>>
    /\ UNCHANGED <<asyncVars, hash_file>>

\* finally: await client.close(); the exception, if any, goes on to the caller
CloseClient ==
    /\ pc = "finally"
    /\ client_closed' = TRUE
    /\ pc' = IF returned.raised # "" THEN "raised" ELSE "done"
    /\ UNCHANGED <<inputVars, fetchVars, clusterVars, outVars, electVars,
                   layerVars, previous, dashboard_file, callVars>>
    /\ UNCHANGED <<asyncVars, hash_file>>

\* cli update: except Exception: the failure is logged and echoed
UpdateFailed ==
    /\ pc = "raised"
    /\ pc' = "failed"
    /\ UNCHANGED <<inputVars, fetchVars, clusterVars, outVars, electVars,
                   layerVars, previous, updateVars, callVars>>
    /\ UNCHANGED <<asyncVars, hash_file>>

NextUpdate ==
    \/ UpdateStart
    \/ Prepare
    \/ IdentifyAlts
    \/ CheckAlts
    \/ SaveAlts
    \/ GenerateDashboard
    \/ SummaryReport
    \/ CloseClient
    \/ UpdateFailed

SpecUpdate == InitUpdate /\ [][NextUpdate]_vars

\* ------------------------------------------------- the getters by themselves
Getters ==
    {"get_guild_roster", "get_character_profile", "get_character_achievements",
     "get_character_pets", "get_character_mounts"}

\* what the API may answer to one attempt
AttemptReplies == {Ok([id |-> 1]), NoRoute, NotFound, Unavailable, Garbled}

\* a getter is called on a client that holds a valid token or none; the API
\* answers attempt k with call.replies[k]
InitGetter ==
    /\ members = <<>>
    /\ servers = <<>>
    /\ oauth \in {TokenGranted, TokenRefused}
    /\ api_token \in BOOLEAN
    /\ pc = "call"
    /\ BlankData
    /\ call \in {[fn |-> g, replies |-> rs] :
                    g \in Getters, rs \in [1..max_retries -> AttemptReplies]}
    /\ returned = [raised |-> ""]
    /\ group = <<>>
    /\ main_name = ""

\* get_guild_roster, get_character_profile, get_character_achievements,
\* get_character_pets, get_character_mounts: return await self._request(...)
GetterCall ==
    /\ pc = "call"
    /\ LET tokenOk == _get_access_token(api_token, oauth)
           r == _request(tokenOk, call.replies)
       IN  /\ api_token' = tokenOk
           /\ returned' = IF r.raised
                          THEN [raised |-> "Exception"]
                          ELSE [raised |-> "", value |-> r.value]
    /\ pc' = "returned"
    /\ UNCHANGED <<inputVars, all_results, clusterVars, outVars, electVars,
                   layerVars, previous, updateVars, call>>
    /\ UNCHANGED <<asyncVars, hash_file>>

NextGetter == GetterCall

SpecGetter == InitGetter /\ [][NextGetter]_vars

\* ------------------------------------------------ get_character_info_by_name
\* the names of the dashboard and of the queries, in several spellings
DashNames == {"Ann", "ann", "Bob"}
MainNames == DashNames \cup {"Cid"}
QueryNames == {"ann", "BOB", "Cid", "Ann"}

\* a comparison of names that does not fold the case
LowerKeepsCase(str) == str

\* str.lower() on these names
Lower(str) ==
    CASE str \in {"Ann", "ann"} -> "ann"
      [] str \in {"Bob", "BOB"} -> "bob"
      [] str \in {"Cid"} -> "cid"
      [] OTHER -> str

\* create_character_info(row), for the columns the lookup reads
create_character_info(row) ==
    [name |-> row.Name, realm |-> row.Realm, is_alt |-> row.Alt, main |-> row.Main]

\* CsvRosterRepository.get_character_info_by_name(name, ...): the pair
\* (info, modified_at); file is the dashboard file
get_character_info_by_name(name, file) ==
    IF ~file.written
    THEN <<PyNone, NoneTs>>
    ELSE LET modified_at == file.modified_at
             df == file.rows
             IsChar(row) == Lower(row.Name) = Lower(name)
         IN  IF \A i \in DOMAIN df : ~IsChar(df[i])
             THEN <<PyNone, modified_at>>
             ELSE LET char_data == SelectSeq(df, IsChar)[1]
                      main_name_ == IF char_data.Alt THEN char_data.Main
                                    ELSE char_data.Name
                      IsMain(row) == Lower(row.Name) = Lower(main_name_)
                      main_info ==
                          IF \A i \in DOMAIN df : ~IsMain(df[i])
                          THEN create_character_info(char_data)
                          ELSE create_character_info(SelectSeq(df, IsMain)[1])
                      IsAlt(row) == Lower(row.Main) = Lower(main_name_) /\ row.Alt
                      alts_df == SelectSeq(df, IsAlt)
                      alts == [k \in DOMAIN alts_df |->
                                  create_character_info(alts_df[k])]
                  IN  <<[name |-> main_info.name, realm |-> main_info.realm,
                         is_alt |-> main_info.is_alt, main |-> main_info.main,
                         alts |-> alts],
                        modified_at>>

\* the dashboards generate_dashboard leaves: one row per character, "Alt?"
\* true exactly when the character is not its own main; a main may lack its
\* row (the merges keep only the characters that have a profile)
DashboardRows(n) ==
    {[i \in 1..n |-> [Name |-> names[i], Realm |-> i,
                       Alt |-> names[i] # mains[i], Main |-> mains[i]]] :
        names \in [1..n -> DashNames], mains \in [1..n -> MainNames]}

Dashboards ==
    {[written |-> FALSE]}
        \cup UNION {{[written |-> TRUE, rows |-> rows, modified_at |-> 1] :
                       rows \in DashboardRows(n)} : n \in 0..MaxRows}

InitLookup ==
    /\ members = <<>>
    /\ servers = <<>>
    /\ oauth = TokenGranted
    /\ pc = "lookup"
    /\ api_token = FALSE
    /\ all_results = <<>>
    /\ all_char_data = <<>>
    /\ unmatched_chars = <<>>
    /\ groups = <<>>
    /\ main_character_map = EmptyDict
    /\ alts_data = <<>>
    /\ alts_file = [written |-> FALSE, rows |-> <<>>]
    /\ summaries = <<>>
    /\ final_alt_groups = <<>>
    /\ unidentified_chars = <<>>
    /\ previous = [ran |-> FALSE, groups |-> <<>>, alts_data |-> <<>>]
    /\ dashboard_file \in Dashboards
    /\ client_closed = FALSE
    /\ tasks = [i |-> 0, started |-> 0, ended |-> 0]
    /\ requests = <<>>
    /\ token_requests = 0
    /\ attempt = 0
    /\ hash_file = [exists |-> FALSE]
    /\ call \in {[fn |-> "get_character_info_by_name", name |-> n] :
                    n \in QueryNames}
    /\ returned = [raised |-> ""]
    /\ group = <<>>
    /\ main_name = ""

LookupCharacter ==
    /\ pc = "lookup"
    /\ returned' = [raised |-> "",
                    value |-> get_character_info_by_name(call.name, dashboard_file)]
    /\ pc' = "returned"
    /\ UNCHANGED <<inputVars, fetchVars, clusterVars, outVars, electVars,
                   layerVars, previous, updateVars, call>>
    /\ UNCHANGED <<asyncVars, hash_file>>

NextLookup == LookupCharacter

SpecLookup == InitLookup /\ [][NextLookup]_vars

\* ---------------------------------------------------------------- data_path
\* A str is the sequence of its characters; a Path is its parts, and whether
\* it is anchored at the root.
Chars == {"a", "/", "."}

Strs(n) == UNION {[1..k -> Chars] : k \in 0..n}

RECURSIVE Join(_, _)
\* sep.join(args)
Join(args, sep) ==
    IF args = <<>> THEN <<>>
    ELSE IF Len(args) = 1 THEN args[1]
    ELSE args[1] \o sep \o Join(Tail(args), sep)

\* lstrip left out
LStripNothing(str, ch) == str

RECURSIVE LStrip(_, _)
\* str.lstrip(ch)
LStrip(str, ch) ==
    IF str # <<>> /\ Head(str) = ch THEN LStrip(Tail(str), ch) ELSE str

RECURSIVE Split(_, _, _)
\* str.split(ch), `part` being the part read so far
Split(str, ch, part) ==
    IF str = <<>> THEN <<part>>
    ELSE IF Head(str) = ch THEN <<part>> \o Split(Tail(str), ch, <<>>)
    ELSE Split(Tail(str), ch, Append(part, Head(str)))

\* the parts pathlib keeps of a str: empty parts and "." are dropped
PathParts(str) ==
    LET Kept(part) == part # <<>> /\ part # <<".">>
    IN  SelectSeq(Split(str, "/", <<>>), Kept)

\* base_dir / str: a str that starts with "/" replaces base_dir
PathJoin(base_dir, str) ==
    IF str # <<>> /\ Head(str) = "/"
    THEN [root |-> TRUE, parts |-> PathParts(str)]
    ELSE [root |-> base_dir.root, parts |-> base_dir.parts \o PathParts(str)]

\* Path.suffix: the name from its last "." on, when that "." is neither the
\* first nor the last character of the name
Suffix(path) ==
    IF path.parts = <<>> THEN <<>>
    ELSE LET name == path.parts[Len(path.parts)]
             dots == {i \in DOMAIN name : name[i] = "."}
         IN  IF dots = {} THEN <<>>
             ELSE LET i == CHOOSE d \in dots : \A e \in dots : e <= d
                  IN  IF 1 < i /\ i < Len(name)
                      THEN SubSeq(name, i, Len(name)) ELSE <<>>

\* data_path(base_dir, *args)
data_path(base_dir, args) ==
    IF args = <<>>
    THEN Raise("ValueError", "At least one path component is required")
    ELSE LET local_path == LStrip(Join(args, <<"-">>), "/")
         IN  [raised |-> "",
              value |-> PathJoin(base_dir, local_path \o <<".", "c", "s", "v">>)]

\* Path("/d") and Path("d/a")
BaseDirs ==
    {[root |-> TRUE, parts |-> << <<"d">> >>],
     [root |-> FALSE, parts |-> << <<"d">>, <<"a">> >>]}

InitDataPath ==
    /\ members = <<>>
    /\ servers = <<>>
    /\ oauth = TokenGranted
    /\ pc = "data_path"
    /\ Blank
    /\ call \in {[fn |-> "data_path", base_dir |-> b, args |-> args] :
                    b \in BaseDirs,
                    args \in UNION {[1..n -> Strs(MaxCompLen)] : n \in 0..MaxArgs}}
    /\ returned = [raised |-> ""]
    /\ group = <<>>
    /\ main_name = ""

DataPath ==
    /\ pc = "data_path"
    /\ returned' = data_path(call.base_dir, call.args)
    /\ pc' = "returned"
    /\ UNCHANGED <<inputVars, fetchVars, clusterVars, outVars, electVars,
                   layerVars, previous, updateVars, call>>
    /\ UNCHANGED <<asyncVars, hash_file>>

NextDataPath == DataPath

SpecDataPath == InitDataPath /\ [][NextDataPath]_vars

\* --------------------------------------------------------- format_timestamp
\* A Python value is its type and, for a number, the number, for a str, its
\* characters.
TsChars == {"0", "1", "a", " ", "-", "_"}

Digits == {"0", "1"}

DigitValue(ch) == IF ch = "1" THEN 1 ELSE 0

TsInputs ==
    {[type |-> "NoneType"], [type |-> "list"], [type |-> "dict"],
     [type |-> "object"]}
        \cup {[type |-> "int", number |-> v] : v \in {0, 1, 1000, 0 - 1500}}
        \cup {[type |-> "float", number |-> v] : v \in {0, 2500}}
        \cup {[type |-> "bool", number |-> v] : v \in {0, 1}}
        \cup {[type |-> "str", chars |-> str] :
                 str \in UNION {[1..k -> TsChars] : k \in 0..MaxTsLen}}

RECURSIVE RStrip(_, _)
\* str.rstrip(ch)
RStrip(str, ch) ==
    IF str # <<>> /\ str[Len(str)] = ch
    THEN RStrip(SubSeq(str, 1, Len(str) - 1), ch) ELSE str

RECURSIVE ParseDigits(_, _, _)
\* the digits of an int literal from `str` on: underscores only between
\* digits; `acc` is the value read so far, `after` what was read last
\* ("" nothing, "d" a digit, "_" an underscore)
ParseDigits(str, acc, after) ==
    IF str = <<>>
    THEN [ok |-> after = "d", value |-> acc]
    ELSE IF Head(str) \in Digits
    THEN ParseDigits(Tail(str), 10 * acc + DigitValue(Head(str)), "d")
    ELSE IF Head(str) = "_" /\ after = "d"
    THEN ParseDigits(Tail(str), acc, "_")
    ELSE [ok |-> FALSE, value |-> 0]

\* int(str): surrounding whitespace, an optional sign, the digits;
\* ok = FALSE is ValueError
ParseInt(str) ==
    LET body == RStrip(LStrip(str, " "), " ")
        signed == body # <<>> /\ Head(body) = "-"
        r == ParseDigits(IF signed THEN Tail(body) ELSE body, 0, "")
    IN  [ok |-> r.ok, value |-> IF signed THEN 0 - r.value ELSE r.value]

\* isinstance(ts, (int, float)) taken as always true
IsNumberAlways(ts) == TRUE

\* isinstance(ts, (int, float)); bool is a subclass of int
IsNumber(ts) == ts.type \in {"int", "float", "bool"}

\* the text of the local time of ts milliseconds: the second it falls in
FormattedTime(ms) == [text |-> "date", seconds |-> ms \div 1000]

\* format_timestamp(ts)
format_timestamp(ts) ==
    IF \/ ts.type = "NoneType"
       \/ ts.type \in {"int", "float", "bool"} /\ ts.number = 0
       \/ ts.type = "str" /\ ts.chars = <<"0">>
    THEN [raised |-> "", value |-> [text |-> "N/A"]]
    ELSE IF ts.type = "str"
    THEN IF ParseInt(ts.chars).ok
         THEN [raised |-> "", value |-> FormattedTime(ParseInt(ts.chars).value)]
         ELSE Raise("ValueError", "invalid literal for int() with base 10")
    ELSE IF ~IsNumber(ts)
    THEN Raise("ValueError", "Timestamp must be a valid integer or float")
    ELSE IF ts.type \in {"int", "float", "bool"}
    THEN [raised |-> "", value |-> FormattedTime(ts.number)]
    ELSE Raise("TypeError", "unsupported operand type(s) for /")

InitTimestamp ==
    /\ members = <<>>
    /\ servers = <<>>
    /\ oauth = TokenGranted
    /\ pc = "format_timestamp"
    /\ Blank
    /\ call \in {[fn |-> "format_timestamp", ts |-> ts] : ts \in TsInputs}
    /\ returned = [raised |-> ""]
    /\ group = <<>>
    /\ main_name = ""

FormatTimestamp ==
    /\ pc = "format_timestamp"
    /\ returned' = format_timestamp(call.ts)
    /\ pc' = "returned"
    /\ UNCHANGED <<inputVars, fetchVars, clusterVars, outVars, electVars,
                   layerVars, previous, updateVars, call>>
    /\ UNCHANGED <<asyncVars, hash_file>>

NextTimestamp == FormatTimestamp

SpecTimestamp == InitTimestamp /\ [][NextTimestamp]_vars

\* ------------------------------------- the batches of per-character fetches
\* identify_alts and fetch_roster_details gather their coroutines in slices
\* of tasks_limit.  The coroutines of one call are told apart only by their
\* place in all_tasks, and they start in that order: tasks.started of them
\* have sent their request, tasks.ended of them have ended, tasks.i is the
\* offset of the slice being gathered.
BatchedCalls == {"identify_alts", "fetch_roster_details"}

RosterSizes == {0, 1, 30, 31, MaxRoster}

\* len(all_tasks): three coroutines per member in identify_alts, one
\* fetch_profile per member in fetch_roster_details
TasksOf(c) == IF c.fn = "identify_alts" THEN 3 * c.members ELSE c.members

\* the coroutines of tasks[i : i + tasks_limit] are those up to this one
BatchEnd(i, total) == IF i + tasks_limit < total THEN i + tasks_limit ELSE total

InitBatches ==
    /\ members = <<>>
    /\ servers = <<>>
    /\ oauth = TokenGranted
    /\ pc = "start"
    /\ Blank
    /\ call \in {[fn |-> f, members |-> n] : f \in BatchedCalls, n \in RosterSizes}
    /\ returned = [raised |-> ""]
    /\ group = <<>>
    /\ main_name = ""

\* `if not members: return`, else the first slice is handed to gather
BatchStart ==
    /\ pc = "start"
    /\ pc' = IF call.members = 0 THEN "done" ELSE "gather"
    /\ UNCHANGED <<inputVars, fetchVars, clusterVars, outVars, electVars,
                   layerVars, previous, updateVars, callVars, asyncVars, hash_file>>

\* the next coroutine of the gathered slice runs up to its request; in
\* fetch_roster_details it first takes the semaphore.  The coroutines that
\* gather has scheduled run on after gather has raised.
TaskStart ==
    /\ pc \in {"gather", "raised"}
    /\ tasks.started < BatchEnd(tasks.i, TasksOf(call))
    /\ call.fn = "fetch_roster_details" => tasks.started - tasks.ended < tasks_limit
    /\ tasks' = [tasks EXCEPT !.started = @ + 1]
    /\ UNCHANGED <<inputVars, fetchVars, clusterVars, outVars, electVars,
                   layerVars, previous, updateVars, callVars, requests,
                   token_requests, attempt, hash_file, pc>>

\* a coroutine whose request is in flight gets its reply and returns
TaskEnd ==
    /\ pc \in {"gather", "raised"}
    /\ tasks.ended < tasks.started
    /\ tasks' = [tasks EXCEPT !.ended = @ + 1]
    /\ UNCHANGED <<inputVars, fetchVars, clusterVars, outVars, electVars,
                   layerVars, previous, updateVars, callVars, requests,
                   token_requests, attempt, hash_file, pc>>

\* a coroutine raises: gather hands the exception on at once and the call
\* is left, the other coroutines of the slice are not cancelled
TaskRaises ==
    /\ pc = "gather"
    /\ tasks.ended < tasks.started
    /\ tasks' = [tasks EXCEPT !.ended = @ + 1]
    /\ pc' = "raised"
    /\ UNCHANGED <<inputVars, fetchVars, clusterVars, outVars, electVars,
                   layerVars, previous, updateVars, callVars, requests,
                   token_requests, attempt, hash_file>>

\* gather returns with the next slice handed over before the coroutines of
\* this one have ended
GatheredEarly ==
    /\ pc = "gather"
    /\ tasks.started = BatchEnd(tasks.i, TasksOf(call))
    /\ IF tasks.i + tasks_limit < TasksOf(call)
       THEN /\ tasks' = [tasks EXCEPT !.i = @ + tasks_limit]
            /\ pc' = "gather"
       ELSE /\ pc' = "done"
            /\ UNCHANGED tasks
    /\ UNCHANGED <<inputVars, fetchVars, clusterVars, outVars, electVars,
                   layerVars, previous, updateVars, callVars, requests,
                   token_requests, attempt, hash_file>>

\* `await asyncio.gather(*batch)` returns when every coroutine of the slice
\* has ended; then the sleep and the next slice, or the end of the loop
Gathered ==
    /\ pc = "gather"
    /\ tasks.ended = BatchEnd(tasks.i, TasksOf(call))
    /\ IF tasks.i + tasks_limit < TasksOf(call)
       THEN /\ tasks' = [tasks EXCEPT !.i = @ + tasks_limit]
            /\ pc' = "gather"
       ELSE /\ pc' = "done"
            /\ UNCHANGED tasks
    /\ UNCHANGED <<inputVars, fetchVars, clusterVars, outVars, electVars,
                   layerVars, previous, updateVars, callVars, requests,
                   token_requests, attempt, hash_file>>

NextBatches ==
    \/ BatchStart
    \/ TaskStart
    \/ TaskEnd
    \/ TaskRaises
    \/ Gathered

SpecBatches == InitBatches /\ [][NextBatches]_vars

\* ------------------------------------------- concurrent calls of _request
\* Coroutines that call _request on one client, as the coroutines of a
\* gathered batch do.  requests[r] is the position of coroutine r:
\*   "start"   before `token = await self._get_access_token()`
\*   "post"    inside _get_access_token, awaiting the reply to client.post
\*   "ready"   holding a token, before the attempts
\*   "done"    _request has returned;  "raised"  _get_access_token has raised
InitToken ==
    /\ members = <<>>
    /\ servers = <<>>
    /\ oauth \in {TokenGranted, TokenRefused}
    /\ pc = "requests"
    /\ all_results = <<>>
    /\ all_char_data = <<>>
    /\ unmatched_chars = <<>>
    /\ groups = <<>>
    /\ main_character_map = EmptyDict
    /\ alts_data = <<>>
    /\ alts_file = [written |-> FALSE, rows |-> <<>>]
    /\ summaries = <<>>
    /\ final_alt_groups = <<>>
    /\ unidentified_chars = <<>>
    /\ previous = [ran |-> FALSE, groups |-> <<>>, alts_data |-> <<>>]
    /\ dashboard_file = [written |-> FALSE]
    /\ client_closed = FALSE
    /\ tasks = [i |-> 0, started |-> 0, ended |-> 0]
    /\ attempt = 0
    /\ hash_file = [exists |-> FALSE]
    /\ NoCall
    /\ group = <<>>
    /\ main_name = ""
    /\ api_token \in BOOLEAN
    /\ token_requests = 0
    /\ requests \in UNION {[1..n -> {"start"}] : n \in 1..MaxRequests}

\* _get_access_token up to its await: the cached token is returned, or the
\* POST to the token endpoint is sent
CheckToken(r) ==
    /\ requests[r] = "start"
    /\ IF api_token
       THEN /\ requests' = [requests EXCEPT ![r] = "ready"]
            /\ UNCHANGED token_requests
       ELSE /\ requests' = [requests EXCEPT ![r] = "post"]
            /\ token_requests' = token_requests + 1
    /\ UNCHANGED <<inputVars, fetchVars, clusterVars, outVars, electVars,
                   layerVars, previous, updateVars, callVars, tasks, attempt,
                   hash_file, pc>>

\* _get_access_token after its await: the token of the reply is stored and
\* returned, or the failure is raised
TokenReply(r) ==
    /\ requests[r] = "post"
    /\ IF _get_access_token(FALSE, oauth)
       THEN /\ api_token' = TRUE
            /\ requests' = [requests EXCEPT ![r] = "ready"]
       ELSE /\ requests' = [requests EXCEPT ![r] = "raised"]
            /\ UNCHANGED api_token
    /\ UNCHANGED <<inputVars, all_results, clusterVars, outVars, electVars,
                   layerVars, previous, updateVars, callVars, tasks,
                   token_requests, attempt, hash_file, pc>>

\* the attempts of _request with the token it holds
SendRequest(r) ==
    /\ requests[r] = "ready"
    /\ requests' = [requests EXCEPT ![r] = "done"]
    /\ UNCHANGED <<inputVars, fetchVars, clusterVars, outVars, electVars,
                   layerVars, previous, updateVars, callVars, tasks,
                   token_requests, attempt, hash_file, pc>>

NextToken ==
    \E r \in DOMAIN requests :
        \/ CheckToken(r)
        \/ TokenReply(r)
        \/ SendRequest(r)

SpecToken == InitToken /\ [][NextToken]_vars

\* -------------------------------------------------- _request, step by step
\* One call of _request against call.replies; attempt counts the calls of
\* client.request made so far.
InitRequest ==
    /\ members = <<>>
    /\ servers = <<>>
    /\ oauth \in {TokenGranted, TokenRefused}
    /\ api_token \in BOOLEAN
    /\ pc = "token"
    /\ BlankData
    /\ call \in {[fn |-> "_request", replies |-> rs] :
                    rs \in [1..max_retries -> AttemptReplies]}
    /\ returned = [raised |-> ""]
    /\ group = <<>>
    /\ main_name = ""

\* `token = await self._get_access_token()`, outside the try
RequestToken ==
    /\ pc = "token"
    /\ api_token' = _get_access_token(api_token, oauth)
    /\ IF api_token'
       THEN /\ pc' = "loop"
            /\ UNCHANGED returned
       ELSE /\ pc' = "returned"
            /\ returned' = [raised |-> "Exception"]
    /\ UNCHANGED <<inputVars, all_results, clusterVars, outVars, electVars,
                   layerVars, previous, updateVars, call, asyncVars, hash_file>>

\* one round of `for attempt in range(1, self.max_retries + 1)`
Attempt ==
    /\ pc = "loop"
    /\ attempt < max_retries
    /\ attempt' = attempt + 1
    /\ LET r == call.replies[attempt'] IN
       IF r.err \/ r.status \in RetryStatuses
       THEN /\ pc' = "loop"
            /\ UNCHANGED returned
       ELSE /\ pc' = "returned"
            /\ returned' =
                   IF ~IsSuccess(r.status) THEN [raised |-> "", value |-> EmptyDict]
                   ELSE IF ~r.decodable THEN [raised |-> "ValueError"]
                   ELSE [raised |-> "", value |-> r.body]
    /\ UNCHANGED <<inputVars, fetchVars, clusterVars, outVars, electVars,
                   layerVars, previous, updateVars, call, tasks, requests,
                   token_requests, hash_file>>

\* the loop has run out: `return {}`
Exhausted ==
    /\ pc = "loop"
    /\ attempt = max_retries
    /\ pc' = "returned"
    /\ returned' = [raised |-> "", value |-> EmptyDict]
    /\ UNCHANGED <<inputVars, fetchVars, clusterVars, outVars, electVars,
                   layerVars, previous, updateVars, call, asyncVars, hash_file>>

NextRequest ==
    \/ RequestToken
    \/ Attempt
    \/ Exhausted

SpecRequest == InitRequest /\ [][NextRequest]_vars

\* ------------------------------------------------------- has_roster_changed
\* The hash file: whether it exists, its text, and how often it was written.
\* roster hashes are SHA256 hex digests, told apart by name here
Hashes == {"h1", "h2", "h3", "h4"}

\* the file is absent, or was left by an earlier run: with a hash, empty, or
\* with other text
HashFiles ==
    {[exists |-> FALSE, text |-> "", writes |-> 0]}
        \cup {[exists |-> TRUE, text |-> t, writes |-> 0] :
                  t \in Hashes \cup {"", "other"}}

InitHash ==
    /\ members = <<>>
    /\ servers = <<>>
    /\ oauth = TokenGranted
    /\ pc = "idle"
    /\ api_token = FALSE
    /\ all_results = <<>>
    /\ all_char_data = <<>>
    /\ unmatched_chars = <<>>
    /\ groups = <<>>
    /\ main_character_map = EmptyDict
    /\ alts_data = <<>>
    /\ alts_file = [written |-> FALSE, rows |-> <<>>]
    /\ summaries = <<>>
    /\ final_alt_groups = <<>>
    /\ unidentified_chars = <<>>
    /\ previous = [ran |-> FALSE, groups |-> <<>>, alts_data |-> <<>>]
    /\ dashboard_file = [written |-> FALSE]
    /\ client_closed = FALSE
    /\ tasks = [i |-> 0, started |-> 0, ended |-> 0]
    /\ requests = <<>>
    /\ token_requests = 0
    /\ attempt = 0
    /\ hash_file \in HashFiles
    /\ call = [fn |-> "has_roster_changed", new_hash |-> "", n |-> 0]
    /\ returned = [raised |-> ""]
    /\ group = <<>>
    /\ main_name = ""

\* has_roster_changed with the branch of a changed hash not writing the file
HasRosterChangedKeepsOld ==
    /\ call.n < MaxCalls
    /\ \E new_hash \in Hashes :
           /\ call' = [fn |-> "has_roster_changed", new_hash |-> new_hash,
                       n |-> call.n + 1]
           /\ IF ~hash_file.exists
              THEN /\ hash_file' = [exists |-> TRUE, text |-> new_hash,
                                    writes |-> hash_file.writes + 1]
                   /\ returned' = [raised |-> "", value |-> TRUE]
              ELSE LET old_hash == hash_file.text IN
                   IF old_hash = new_hash
                   THEN /\ returned' = [raised |-> "", value |-> FALSE]
                        /\ UNCHANGED hash_file
                   ELSE /\ returned' = [raised |-> "", value |-> TRUE]
                        /\ UNCHANGED hash_file
    /\ pc' = "returned"
    /\ UNCHANGED <<inputVars, fetchVars, clusterVars, outVars, electVars,
                   layerVars, previous, updateVars, asyncVars>>

\* has_roster_changed(new_hash, hash_file), the n-th call on this file
HasRosterChanged ==
    /\ call.n < MaxCalls
    /\ \E new_hash \in Hashes :
           /\ call' = [fn |-> "has_roster_changed", new_hash |-> new_hash,
                       n |-> call.n + 1]
           /\ IF ~hash_file.exists
              THEN /\ hash_file' = [exists |-> TRUE, text |-> new_hash,
                                    writes |-> hash_file.writes + 1]
                   /\ returned' = [raised |-> "", value |-> TRUE]
              ELSE LET old_hash == hash_file.text IN
                   IF old_hash = new_hash
                   THEN /\ returned' = [raised |-> "", value |-> FALSE]
                        /\ UNCHANGED hash_file
                   ELSE /\ hash_file' = [exists |-> TRUE, text |-> new_hash,
                                         writes |-> hash_file.writes + 1]
                        /\ returned' = [raised |-> "", value |-> TRUE]
    /\ pc' = "returned"
    /\ UNCHANGED <<inputVars, fetchVars, clusterVars, outVars, electVars,
                   layerVars, previous, updateVars, asyncVars>>

NextHash == HasRosterChanged

SpecHash == InitHash /\ [][NextHash]_vars

\* ----------------------------------------------------- interactions_handler
\* A header is absent or holds a string.  The signature header is told by
\* what the handler asks of it: whether it is empty, whether it is hex, and
\* the message its 64 bytes are an Ed25519 signature of.
NoHeader == [present |-> FALSE]

Timestamps == {NoHeader, [present |-> TRUE, chars |-> <<>>],
               [present |-> TRUE, chars |-> <<"1">>]}

\* the body of the request: not JSON, or the interaction it encodes
Interaction(type, name, options, value) ==
    [json |-> TRUE, type |-> type, name |-> name, options |-> options,
     value |-> value]

Bodies ==
    {[json |-> FALSE, type |-> 0, name |-> "", options |-> "none", value |-> ""],
     Interaction(1, "", "none", ""),
     Interaction(2, "ping", "none", ""),
     Interaction(2, "other", "none", ""),
     Interaction(2, "whois", "none", ""),
     Interaction(2, "whois", "empty", ""),
     Interaction(2, "whois", "one", ""),
     Interaction(2, "whois", "one", "Ann"),
     Interaction(2, "whois", "one", "Cid"),
     Interaction(3, "", "none", "")}

\* timestamp.encode() + body
Message(timestamp, body) == timestamp.chars \o <<body>>

Signatures ==
    {NoHeader,
     [present |-> TRUE, empty |-> TRUE, hex |-> TRUE, signs |-> <<>>],
     [present |-> TRUE, empty |-> FALSE, hex |-> FALSE, signs |-> <<>>]}
        \cup {[present |-> TRUE, empty |-> FALSE, hex |-> TRUE,
               signs |-> <<"1">> \o <<b>>] : b \in Bodies}

\* `not signature`, `not timestamp`
NoSignature(signature) == ~signature.present \/ signature.empty
NoTimestamp(timestamp) == ~timestamp.present \/ timestamp.chars = <<>>

\* what the handler answers; unhandled is the exception that leaves the
\* handler, which aiohttp answers with status 500; lookups counts the calls
\* of repo.get_character_info_by_name; handled tells that the interaction
\* was decoded and dispatched
Response(status, content, handled, lookups) ==
    [raised |-> "", status |-> status, content |-> content,
     handled |-> handled, lookups |-> lookups]

Unhandled(type, handled) ==
    [raised |-> type, status |-> 500, content |-> "", handled |-> handled,
     lookups |-> 0]

\* interactions_handler(request)
interactions_handler(signature, timestamp, body, file) ==
    IF NoSignature(signature) \/ NoTimestamp(timestamp)
    THEN Response(401, "Missing headers", FALSE, 0)
    ELSE IF ~signature.hex
    THEN Unhandled("ValueError", FALSE)
    ELSE IF signature.signs # Message(timestamp, body)
    THEN Response(401, "Invalid request signature", FALSE, 0)
    ELSE IF ~body.json
    THEN Unhandled("ValueError", FALSE)
    ELSE IF body.type = 1
    THEN Response(200, "PONG", TRUE, 0)
    ELSE IF body.type = 2 /\ body.name = "ping"
    THEN Response(200, "pong", TRUE, 0)
    ELSE IF body.type = 2 /\ body.name = "whois"
    THEN IF body.options = "empty"
         THEN Unhandled("IndexError", TRUE)
         ELSE IF body.options = "none" \/ body.value = ""
         THEN Response(200, "Please provide a character name.", TRUE, 0)
         ELSE LET found == get_character_info_by_name(body.value, file) IN
              IF IsNone(found[1])
              THEN Response(200, "not found in guild roster", TRUE, 1)
              ELSE Response(200, found[1].name, TRUE, 1)
    ELSE Response(400, "Unhandled interaction type", TRUE, 0)

BotDashboards ==
    {[written |-> FALSE],
     [written |-> TRUE, modified_at |-> 1,
      rows |-> <<[Name |-> "Bob", Realm |-> 1, Alt |-> FALSE, Main |-> "Bob"],
                 [Name |-> "Ann", Realm |-> 2, Alt |-> TRUE, Main |-> "Bob"]>>]}

InitBot ==
    /\ members = <<>>
    /\ servers = <<>>
    /\ oauth = TokenGranted
    /\ pc = "request"
    /\ api_token = FALSE
    /\ all_results = <<>>
    /\ all_char_data = <<>>
    /\ unmatched_chars = <<>>
    /\ groups = <<>>
    /\ main_character_map = EmptyDict
    /\ alts_data = <<>>
    /\ alts_file = [written |-> FALSE, rows |-> <<>>]
    /\ summaries = <<>>
    /\ final_alt_groups = <<>>
    /\ unidentified_chars = <<>>
    /\ previous = [ran |-> FALSE, groups |-> <<>>, alts_data |-> <<>>]
    /\ dashboard_file \in BotDashboards
    /\ client_closed = FALSE
    /\ tasks = [i |-> 0, started |-> 0, ended |-> 0]
    /\ requests = <<>>
    /\ token_requests = 0
    /\ attempt = 0
    /\ hash_file = [exists |-> FALSE]
    /\ call \in {[fn |-> "interactions_handler", signature |-> sg,
                   timestamp |-> ts, body |-> b] :
                    sg \in Signatures, ts \in Timestamps, b \in Bodies}
    /\ returned = [raised |-> ""]
    /\ group = <<>>
    /\ main_name = ""

\* POST /api/interactions
HandleInteraction ==
    /\ pc = "request"
    /\ returned' = interactions_handler(call.signature, call.timestamp,
                                        call.body, dashboard_file)
    /\ pc' = "returned"
    /\ UNCHANGED <<inputVars, fetchVars, clusterVars, outVars, electVars,
                   layerVars, previous, updateVars, call, asyncVars, hash_file>>

NextBot == HandleInteraction

SpecBot == InitBot /\ [][NextBot]_vars

\* ================================================================== claims
RECURSIVE Flatten(_)
Flatten(gs) == IF gs = <<>> THEN <<>> ELSE Head(gs) \o Flatten(Tail(gs))

NoRepeat(seq) == \A i, j \in DOMAIN seq : i # j => seq[i] # seq[j]

FpSet(char) == Range(char.fingerprint)

\* C1: the groups of the clustering loop are an exact partition of
\* all_char_data: throughout the loop no group is empty and the groups
\* together with the pool hold every profile exactly once; at the end the
\* pool is empty, so the groups alone do.
C1_Partition ==
    pc \in {"cluster", "done"} /\ members # <<>> =>
        LET held == Flatten(groups) \o unmatched_chars IN
        /\ \A g \in DOMAIN groups : groups[g] # <<>>
        /\ NoRepeat(held)
        /\ Len(held) = Len(all_char_data)
        /\ Range(held) = Range(all_char_data)
        /\ pc = "done" => unmatched_chars = <<>>

C1_Witness ==
    /\ pc = "done"
    /\ Len(all_char_data) >= 3
    /\ Len(groups) >= 2
    /\ \E g \in DOMAIN groups : Len(groups[g]) >= 2

\* C2: a profile whose fingerprint has fewer than 3 entries is alone in its
\* group, whatever the other profiles are.
C2_ReliabilityFloor ==
    pc \in {"cluster", "done"} =>
        \A g \in DOMAIN groups : \A k \in DOMAIN groups[g] :
            Cardinality(FpSet(groups[g][k])) < 3 => Len(groups[g]) = 1

C2_Witness ==
    /\ pc = "done"
    /\ \E i, j \in DOMAIN all_char_data :
           /\ i < j
           /\ all_char_data[i].fingerprint = all_char_data[j].fingerprint
           /\ Len(all_char_data[i].fingerprint) = 2
    /\ \E i \in DOMAIN all_char_data : all_char_data[i].fingerprint = <<>>

\* two fingerprints of at least 3 entries whose Jaccard similarity is 4/5
AtThreshold(a, b) ==
    /\ Cardinality(a) >= 3
    /\ Cardinality(b) >= 3
    /\ 5 * Cardinality(a \cap b) = 4 * Cardinality(a \cup b)

\* C3: when a base is taken, every profile of the pool whose similarity with
\* the base is exactly 0.8 (both fingerprints of 3 entries or more) is put in
\* the base's group.
C3_ThresholdInclusive ==
    [][pc = "cluster" /\ unmatched_chars # <<>> =>
          \A k \in 2..Len(unmatched_chars) :
              AtThreshold(FpSet(unmatched_chars[1]), FpSet(unmatched_chars[k]))
                  => /\ Len(groups') = Len(groups) + 1
                     /\ groups'[Len(groups')][1] = unmatched_chars[1]
                     /\ unmatched_chars[k] \in Range(groups'[Len(groups')])]_vars

C3_Witness ==
    /\ pc = "done"
    /\ \E g \in DOMAIN groups :
           /\ Len(groups[g]) >= 2
           /\ AtThreshold(FpSet(groups[g][1]), FpSet(groups[g][2]))
           /\ Cardinality(FpSet(groups[g][1]) \cap FpSet(groups[g][2])) = 4

\* the Level 10 timestamp a profile carries, NoneTs when it has none
Level10Of(char) ==
    Get(Get(char, "timestamps", EmptyDict), LEVEL_10_ACHIEVEMENT_ID, NoneTs)

\* C4: _find_main_in_group returns the name of the first profile, in group
\* order, among those with the least Level 10 timestamp; the name of the
\* first profile of the group when no profile has one; always the name of a
\* member of the group.
C4_MainElection ==
    pc = "elected" =>
        LET dated == {i \in DOMAIN group : Level10Of(group[i]) # NoneTs} IN
        /\ main_name \in {group[i].name : i \in DOMAIN group}
        /\ IF dated = {}
           THEN main_name = group[1].name
           ELSE \E i \in dated :
                    /\ \A j \in dated : Level10Of(group[i]) <= Level10Of(group[j])
                    /\ \A j \in dated :
                           Level10Of(group[j]) = Level10Of(group[i]) => i <= j
                    /\ main_name = group[i].name

C4_Witness ==
    /\ pc = "elected"
    /\ Len(group) = 3
    /\ Level10Of(group[1]) = 2
    /\ Level10Of(group[2]) = 1
    /\ Level10Of(group[3]) = 1
    /\ group[1].name # group[2].name
    /\ group[2].name # group[3].name
    /\ main_name = group[2].name

\* the group that holds a profile
GroupOf(char) == CHOOSE g \in DOMAIN groups : char \in Range(groups[g])

\* C5: every output record carries as main the name elected for the group
\* that holds its own character, and alt is TRUE exactly when the
\* character's name differs from that main; the table holds the same records.
C5_RecordMain ==
    pc = "done" /\ members # <<>> =>
        /\ Len(alts_data) = Len(all_char_data)
        /\ \A i \in DOMAIN alts_data :
               LET elected ==
                       _find_main_in_group(groups[GroupOf(all_char_data[i])])
               IN  /\ alts_data[i].id = all_char_data[i].id
                   /\ alts_data[i].name = all_char_data[i].name
                   /\ alts_data[i].main = elected
                   /\ alts_data[i].alt = (all_char_data[i].name # elected)
        /\ Range(alts_file.rows) = Range(alts_data)

C5_Witness ==
    /\ pc = "done"
    /\ \E i, j, k \in DOMAIN alts_data :
           /\ i # j
           /\ alts_data[i].name = alts_data[j].name
           /\ alts_data[i].alt
           /\ alts_data[j].alt
           /\ alts_data[k].name = alts_data[i].main
           /\ Level10Of(all_char_data[k]) # NoneTs
           /\ k > i

\* C6: a record with alt = FALSE has name = main, and for every main of the
\* output exactly one record has that name.
C6_MainExistsUnique ==
    pc = "done" =>
        /\ \A i \in DOMAIN alts_data :
               ~alts_data[i].alt => alts_data[i].name = alts_data[i].main
        /\ \A i \in DOMAIN alts_data :
               Cardinality({j \in DOMAIN alts_data :
                               alts_data[j].name = alts_data[i].main}) = 1

Sorted(rows) ==
    \A i \in 1..(Len(rows) - 1) : ~RowBefore(rows[i + 1], rows[i])

\* C7: the list identify_alts returns and the table it writes are both in
\* non-decreasing order of (main, name).
C7_OutputSorted ==
    pc = "done" => Sorted(alts_data) /\ Sorted(alts_file.rows)

\* every request for member i ends with the client returning {}
AllFetchesFail(i) ==
    \A ep \in {"ach", "pets", "mounts"} :
        _request(TRUE, servers[i][ep]) = [raised |-> FALSE, value |-> EmptyDict]

\* C8: a character whose fetches all fail is clustered with an empty
\* fingerprint and zero counts, is its own main, and is the main of no alt.
C8_FailedFetchOwnMain ==
    pc = "done" =>
        \A i \in DOMAIN members :
            AllFetchesFail(i) =>
                \E k \in DOMAIN all_char_data :
                    /\ all_char_data[k].id = members[i].id
                    /\ all_char_data[k].fingerprint = <<>>
                    /\ all_char_data[k].pets = 0
                    /\ all_char_data[k].mounts = 0
                    /\ ~alts_data[k].alt
                    /\ alts_data[k].main = members[i].name
                    /\ \A j \in DOMAIN alts_data :
                           alts_data[j].alt => alts_data[j].main # members[i].name

\* the achievements request of member i fails: _request raises or returns {}
AchRequestFails(i) ==
    LET r == _request(_get_access_token(FALSE, oauth), servers[i].ach)
    IN  r.raised \/ r.value = EmptyDict

\* C10: when the achievements request of a character fails, identify_alts is
\* not left by an exception, and when it returns every member has a record.
C10_FailureDoesNotAbort ==
    (\E i \in DOMAIN members : AchRequestFails(i)) =>
        /\ pc # "raised"
        /\ pc = "done" =>
               \A j \in DOMAIN members :
                   \E k \in DOMAIN alts_data : alts_data[k].id = members[j].id

\* the pets and the mounts request of this character both failed
CollectionsFailed(char) ==
    /\ RequestException(ServerFor(char.name, char.realm).pets[1])
    /\ RequestException(ServerFor(char.name, char.realm).mounts[1])

\* C9: in the two-layer identify_alts a character whose pets and mounts
\* requests failed is in no group with another character.
C9_FailedCollectionsNotGrouped ==
    pc \in {"layer1", "layer2", "done"} =>
        \A g \in DOMAIN final_alt_groups :
            Len(final_alt_groups[g]) > 1 =>
                \A k \in DOMAIN final_alt_groups[g] :
                    ~CollectionsFailed(final_alt_groups[g][k])

\* the member lacks its name or its realm
Malformed(m) == MissingName(m.name) \/ MissingNum(m.realm)

\* C11: a member whose name or realm is missing takes no part in the
\* clustering and gets no record, no exception is raised, and every other
\* member gets exactly one record.
C11_MalformedSkipped ==
    /\ pc # "raised" \/ \A i \in DOMAIN members : ~Malformed(members[i])
    /\ pc = "done" =>
           \A i \in DOMAIN members :
               LET recs == {k \in DOMAIN alts_data : alts_data[k].id = members[i].id}
                   data == {k \in DOMAIN all_char_data :
                               all_char_data[k].id = members[i].id}
               IN  IF Malformed(members[i])
                   THEN recs = {} /\ data = {}
                   ELSE Cardinality(recs) = 1

\* C12: with a roster of no members identify_alts returns the empty list at
\* once: it is never left by an exception, no fetch is issued (no token is
\* asked for, no task gathered), nothing is clustered and no alts table is
\* written.
C12_EmptyRoster ==
    members = <<>> =>
        /\ pc \in {"start", "done"}
        /\ alts_data = <<>>
        /\ all_results = <<>>
        /\ ~api_token
        /\ all_char_data = <<>>
        /\ groups = <<>>
        /\ ~alts_file.written

C12_Witness ==
    /\ members = <<>>
    /\ pc = "done"
    /\ alts_data = <<>>
    /\ ~alts_file.written

\* C13: two profiles with the same fingerprint of 3 entries or more are in
\* the same group at the end, whatever the other profiles and the order of
\* the roster.
C13_IdenticalMerged ==
    pc = "done" =>
        \A i, j \in DOMAIN all_char_data :
            /\ all_char_data[i].fingerprint = all_char_data[j].fingerprint
            /\ Len(all_char_data[i].fingerprint) >= 3
            => GroupOf(all_char_data[i]) = GroupOf(all_char_data[j])

C13_Witness ==
    /\ pc = "done"
    /\ \E g \in DOMAIN groups :
           /\ Len(groups[g]) = 3
           /\ groups[g][2].fingerprint = groups[g][3].fingerprint
           /\ groups[g][1].fingerprint # groups[g][2].fingerprint
           /\ groups[g][2].name # groups[g][3].name

\* the achievements the API reported for the character of SpecFingerprint
ReportedAchs == servers[1].ach[1].body.achievements

\* the pairs a fingerprint is to hold
ExpectedPairs ==
    {<<ReportedAchs[i].id, ReportedAchs[i].completed_timestamp>> :
        i \in {j \in DOMAIN ReportedAchs :
                  /\ ReportedAchs[j].id \in FINGERPRINT_ACHIEVEMENT_IDS
                  /\ ReportedAchs[j].completed_timestamp # NoneTs
                  /\ ReportedAchs[j].completed_timestamp # 0}}

\* res.fingerprint holds exactly the expected pairs, by ascending id, none of
\* them of the Level 10 achievement
FingerprintAsExpected(res) ==
    /\ Range(res.fingerprint) = ExpectedPairs
    /\ \A i, j \in DOMAIN res.fingerprint :
           i < j => res.fingerprint[i][1] < res.fingerprint[j][1]
    /\ \A i \in DOMAIN res.fingerprint :
           res.fingerprint[i][1] # LEVEL_10_ACHIEVEMENT_ID

C16_NoOutputHardFailure ==
    alts_data = <<>> =>
        /\ ~alts_file.written
        /\ ~dashboard_file.written
        /\ pc \notin {"save", "dashboard", "summary", "done"}
        /\ pc \in {"finally", "raised", "failed"} => returned.raised # ""

C16_Witness ==
    /\ pc = "failed"
    /\ members # <<>>
    /\ alts_data = <<>>
    /\ returned = Raise("RuntimeError", "Failed to identify alts")
    /\ client_closed
    /\ ~alts_file.written
    /\ ~dashboard_file.written

\* the replies up to the one that ends the attempts hold no success that
\* can be decoded
NoUsableReply(replies) ==
    \A k \in DOMAIN replies :
        ~(/\ ~replies[k].err
          /\ IsSuccess(replies[k].status)
          /\ replies[k].decodable
          /\ \A j \in 1..(k - 1) :
                 replies[j].err \/ replies[j].status \in RetryStatuses)

\* C17: a getter never raises; when the token cannot be obtained or the
\* request fails it returns the empty dict.
C17_GettersReturnEmpty ==
    pc = "returned" =>
        /\ returned.raised = ""
        /\ ~_get_access_token(api_token, oauth) \/ NoUsableReply(call.replies)
               => returned = [raised |-> "", value |-> EmptyDict]

\* the spellings of one name
Spellings == {{"Ann", "ann"}, {"Bob", "BOB"}, {"Cid"}}

\* a and b are the same name up to case
SameName(a, b) == \E c \in Spellings : a \in c /\ b \in c

\* the first row of the dashboard whose name is n up to case, 0 when none
RowOf(n) ==
    LET hits == {i \in DOMAIN dashboard_file.rows :
                    SameName(dashboard_file.rows[i].Name, n)}
    IN  IF hits = {} THEN 0 ELSE CHOOSE i \in hits : \A j \in hits : i <= j

\* the main of the character the query finds
MainOfQuery ==
    LET row == dashboard_file.rows[RowOf(call.name)]
    IN  IF row.Alt THEN row.Main ELSE row.Name

\* the info lists as alts exactly the rows flagged as alts of main m, in
\* the order of the dashboard
AltsOfMain(info, m) ==
    LET rows == dashboard_file.rows
        idx == {i \in DOMAIN rows : rows[i].Alt /\ SameName(rows[i].Main, m)}
    IN  /\ Len(info.alts) = Cardinality(idx)
        /\ \A k \in DOMAIN info.alts :
               \E i \in idx :
                   /\ info.alts[k].realm = rows[i].Realm
                   /\ info.alts[k].name = rows[i].Name
                   /\ Cardinality({j \in idx : j < i}) = k - 1

\* the answer when there is no dashboard or no row of that name
NotFoundAnswer ==
    LET info == returned.value[1]
        modified_at == returned.value[2]
    IN  /\ ~dashboard_file.written => IsNone(info) /\ modified_at = NoneTs
        /\ dashboard_file.written /\ RowOf(call.name) = 0 =>
               /\ IsNone(info)
               /\ modified_at # NoneTs
               /\ modified_at = dashboard_file.modified_at

\* C18 as stated: (None, None) without a dashboard, (None, modified_at)
\* without a row of that name, and otherwise the info of the main of the
\* character with all the rows flagged as its alts.
C18_CharacterInfo ==
    pc = "returned" =>
        /\ NotFoundAnswer
        /\ dashboard_file.written /\ RowOf(call.name) # 0 =>
               LET info == returned.value[1] IN
               /\ ~IsNone(info)
               /\ returned.value[2] = dashboard_file.modified_at
               /\ SameName(info.name, MainOfQuery)
               /\ info.realm = dashboard_file.rows[RowOf(MainOfQuery)].Realm
               /\ AltsOfMain(info, MainOfQuery)

\* C18 amended: as stated, except that when the main has no row in the
\* dashboard the info is that of the character found, still with the rows
\* flagged as alts of the main.
C18_CharacterInfoAmended ==
    pc = "returned" =>
        /\ NotFoundAnswer
        /\ dashboard_file.written /\ RowOf(call.name) # 0 =>
               LET info == returned.value[1]
                   shown == IF RowOf(MainOfQuery) # 0 THEN RowOf(MainOfQuery)
                            ELSE RowOf(call.name)
               IN  /\ ~IsNone(info)
                   /\ returned.value[2] = dashboard_file.modified_at
                   /\ info.name = dashboard_file.rows[shown].Name
                   /\ info.realm = dashboard_file.rows[shown].Realm
                   /\ RowOf(MainOfQuery) # 0 => SameName(info.name, MainOfQuery)
                   /\ AltsOfMain(info, MainOfQuery)

C18_Witness ==
    /\ pc = "returned"
    /\ call.name = "BOB"
    /\ dashboard_file.written
    /\ Len(dashboard_file.rows) = 3
    /\ dashboard_file.rows[1].Name = "ann"
    /\ dashboard_file.rows[1].Main = "Ann"
    /\ dashboard_file.rows[2].Name = "Bob"
    /\ dashboard_file.rows[2].Main = "ann"
    /\ dashboard_file.rows[3].Name = "Ann"
    /\ ~dashboard_file.rows[3].Alt
    /\ returned.value[1].name = "ann"
    /\ Len(returned.value[1].alts) = 2

\* the path is base_dir with exactly one more part
DirectChild(path, base_dir) ==
    /\ path.root = base_dir.root
    /\ Len(path.parts) = Len(base_dir.parts) + 1
    /\ SubSeq(path.parts, 1, Len(base_dir.parts)) = base_dir.parts

\* the str ends with ".csv"
EndsWithCsv(str) ==
    /\ Len(str) >= 4
    /\ SubSeq(str, Len(str) - 3, Len(str)) = <<".", "c", "s", "v">>

\* what the claim gives as the result for these components
JoinedCsv(args) == LStrip(Join(args, <<"-">>), "/") \o <<".", "c", "s", "v">>

\* C19 as stated: ValueError without components; with components the
\* result is base_dir / (the components joined by "-", leading "/" removed,
\* then ".csv"), and so a direct child of base_dir with the suffix .csv.
C19_DataPath ==
    pc = "returned" /\ call.fn = "data_path" =>
        IF call.args = <<>>
        THEN returned.raised = "ValueError"
        ELSE /\ returned.raised = ""
             /\ returned.value = PathJoin(call.base_dir, JoinedCsv(call.args))
             /\ DirectChild(returned.value, call.base_dir)
             /\ Suffix(returned.value) = <<".", "c", "s", "v">>

\* no component holds a "/", and the first one is neither empty nor starts
\* with "."
PlainComponents(args) ==
    /\ \A i \in DOMAIN args : \A k \in DOMAIN args[i] : args[i][k] # "/"
    /\ args[1] # <<>>
    /\ args[1][1] # "."

\* C19 amended: ValueError without components; with components the result
\* is that same path, it lies under base_dir and its name ends with ".csv";
\* it is a direct child of base_dir named by the joined components, with the
\* suffix .csv, when the components are plain.
C19_DataPathAmended ==
    pc = "returned" /\ call.fn = "data_path" =>
        IF call.args = <<>>
        THEN returned.raised = "ValueError"
        ELSE /\ returned.raised = ""
             /\ returned.value = PathJoin(call.base_dir, JoinedCsv(call.args))
             /\ returned.value.root = call.base_dir.root
             /\ Len(returned.value.parts) > Len(call.base_dir.parts)
             /\ SubSeq(returned.value.parts, 1, Len(call.base_dir.parts))
                    = call.base_dir.parts
             /\ EndsWithCsv(returned.value.parts[Len(returned.value.parts)])
             /\ PlainComponents(call.args) =>
                    /\ DirectChild(returned.value, call.base_dir)
                    /\ returned.value.parts[Len(returned.value.parts)]
                           = Join(call.args, <<"-">>) \o <<".", "c", "s", "v">>
                    /\ Suffix(returned.value) = <<".", "c", "s", "v">>

C19_Witness ==
    /\ pc = "returned"
    /\ call.fn = "data_path"
    /\ call.args = << <<"/", "a">>, <<"a", ".">> >>
    /\ returned.value.parts[Len(returned.value.parts)]
           = <<"a", "-", "a", ".", ".", "c", "s", "v">>
    /\ DirectChild(returned.value, call.base_dir)

\* the input is None, the number 0 or the str "0"
IsNoTimestamp(ts) ==
    \/ ts.type = "NoneType"
    \/ ts.type = "int" /\ ts.number = 0
    \/ ts.type = "str" /\ ts.chars = <<"0">>

\* a str of decimal digits, and nothing else
DecimalDigits(str) == str # <<>> /\ \A k \in DOMAIN str : str[k] \in {"0", "1"}

\* a str that int() reads: spaces around, an optional "-", then digits with
\* single underscores between them
IntLiteral(str) ==
    \E i, j \in DOMAIN str :
        /\ i <= j
        /\ \A k \in DOMAIN str : (k < i \/ k > j) => str[k] = " "
        /\ LET from == IF str[i] = "-" THEN i + 1 ELSE i IN
           /\ from <= j
           /\ str[from] \in {"0", "1"}
           /\ str[j] \in {"0", "1"}
           /\ \A k \in from..j : str[k] \in {"0", "1", "_"}
           /\ \A k \in from..(j - 1) : ~(str[k] = "_" /\ str[k + 1] = "_")

\* C20 as stated: "N/A" for None, 0 and "0"; ValueError for every input that
\* is neither None, a number nor a str of decimal digits.
C20_FormatTimestamp ==
    pc = "returned" /\ call.fn = "format_timestamp" =>
        /\ IsNoTimestamp(call.ts) =>
               returned.raised = "" /\ returned.value.text = "N/A"
        /\ /\ call.ts.type \notin {"NoneType", "int", "float", "bool"}
           /\ ~(call.ts.type = "str" /\ DecimalDigits(call.ts.chars))
           => returned.raised = "ValueError"

\* C20 amended: "N/A" for None, 0 and "0"; ValueError for every input that is
\* neither None, a number nor a str that int() reads.
C20_FormatTimestampAmended ==
    pc = "returned" /\ call.fn = "format_timestamp" =>
        /\ IsNoTimestamp(call.ts) =>
               returned.raised = "" /\ returned.value.text = "N/A"
        /\ /\ call.ts.type \notin {"NoneType", "int", "float", "bool"}
           /\ ~(call.ts.type = "str" /\ IntLiteral(call.ts.chars))
           => returned.raised = "ValueError"

C20_Witness ==
    /\ pc = "returned"
    /\ call.fn = "format_timestamp"
    /\ call.ts.type = "str"
    /\ call.ts.chars = <<"1", "_", "a">>
    /\ returned.raised = "ValueError"

\* both fingerprints have 3 entries or more and their Jaccard similarity,
\* |a \cap b| / |a \cup b|, is 0.8 or more
MeetsThreshold(a, b) ==
    /\ Cardinality(a) >= 3
    /\ Cardinality(b) >= 3
    /\ 5 * Cardinality(a \cap b) >= 4 * Cardinality(a \cup b)

\* C21: in a round of the clustering loop a profile of the pool joins the
\* group of the base exactly when both fingerprints have 3 entries or more
\* and their Jaccard similarity is 0.8 or more, the others staying in the
\* pool in their order; no other member of the group is compared, so at every
\* moment each member of a group meets the threshold with the base of its
\* group and with no base before it, and no base meets it with an earlier base.
C21_JoinBaseOnly ==
    /\ [][pc = "cluster" /\ unmatched_chars # <<>> =>
              LET base == unmatched_chars[1]
                  Joins(c) == MeetsThreshold(FpSet(base), FpSet(c))
                  Stays(c) == ~Joins(c)
              IN  /\ groups' = Append(groups,
                                      <<base>> \o SelectSeq(Tail(unmatched_chars), Joins))
                  /\ unmatched_chars' = SelectSeq(Tail(unmatched_chars), Stays)]_vars
    /\ [](pc \in {"cluster", "done"} =>
              \A g \in DOMAIN groups : \A k \in DOMAIN groups[g] :
                  /\ k > 1 => MeetsThreshold(FpSet(groups[g][1]), FpSet(groups[g][k]))
                  /\ \A h \in 1..(g - 1) :
                         ~MeetsThreshold(FpSet(groups[h][1]), FpSet(groups[g][k])))

\* a profile that meets the threshold with a member of an earlier group, not
\* with its base, and so is in a group of its own
C21_Witness ==
    /\ pc = "done"
    /\ Len(groups) = 2
    /\ Len(groups[1]) = 2
    /\ MeetsThreshold(FpSet(groups[1][2]), FpSet(groups[2][1]))
    /\ ~MeetsThreshold(FpSet(groups[1][1]), FpSet(groups[2][1]))

\* the characters of the groups, by id
GroupIds(gs) == [g \in DOMAIN gs |-> [k \in DOMAIN gs[g] |-> gs[g][k].id]]

\* C22: a second run of identify_alts on a roster that differs from the first
\* only in the pet and mount counts of its characters ends with the same
\* groups of the same characters, in the same order, and the same records.
C22_CountsIgnored ==
    pc = "done" /\ previous.ran =>
        /\ GroupIds(groups) = GroupIds(previous.groups)
        /\ alts_data = previous.alts_data

\* two characters grouped in the first run whose counts were equal then and
\* differ in the second
C22_Witness ==
    /\ pc = "done"
    /\ previous.ran
    /\ \E g \in DOMAIN groups :
           /\ Len(groups[g]) >= 2
           /\ groups[g][1].pets # groups[g][2].pets
           /\ groups[g][1].mounts # groups[g][2].mounts
           /\ previous.groups[g][1].pets = previous.groups[g][2].pets
           /\ previous.groups[g][1].mounts = previous.groups[g][2].mounts
    /\ \E i \in DOMAIN alts_data : alts_data[i].alt

\* C23: the clustering loop ends: a round takes at least the base out of the
\* pool and adds one group, the pool never grows, the loop is left exactly
\* when the pool is empty, there are never more groups than profiles, and a
\* loop that was entered is left with the pool empty.
C23_LoopTerminates ==
    /\ [][pc = "cluster" =>
              /\ Len(unmatched_chars') <= Len(unmatched_chars)
              /\ unmatched_chars # <<>> =>
                     /\ pc' = "cluster"
                     /\ Len(unmatched_chars') < Len(unmatched_chars)
                     /\ Len(groups') = Len(groups) + 1
              /\ unmatched_chars = <<>> =>
                     /\ pc' # "cluster"
                     /\ groups' = groups]_vars
    /\ [](pc \in {"cluster", "done"} => Len(groups) <= Len(all_char_data))
    /\ (pc = "cluster" ~> (pc = "done" /\ unmatched_chars = <<>>))

\* the longest run of the loop: as many rounds as there are profiles
C23_Witness ==
    /\ pc = "done"
    /\ Len(all_char_data) = 3
    /\ Len(groups) = 3
    /\ unmatched_chars = <<>>

FetchedFor(i) ==
    [fingerprint |-> all_results[3 * (i - 1) + 1],
     pets        |-> all_results[3 * (i - 1) + 2],
     mounts      |-> all_results[3 * (i - 1) + 3]]

\* C25: the working profile of a roster member has the member's id and realm
\* and carries the fingerprint, the timestamps, the pet count and the mount
\* count that the fetches of that member returned, also when another member
\* of the roster has the same name on another realm.
C25_OwnData ==
    pc \in {"cluster", "done"} =>
        /\ Len(all_char_data) = Len(members)
        /\ \A i \in DOMAIN all_char_data :
               LET char == all_char_data[i]
                   own == FetchedFor(i)
               IN  /\ char.id = members[i].id
                   /\ char.realm = members[i].realm
                   /\ own.fingerprint.name = char.name
                   /\ char.fingerprint = own.fingerprint.fingerprint
                   /\ char.timestamps = own.fingerprint.timestamps
                   /\ own.pets.id = char.id
                   /\ char.pets = own.pets.pets
                   /\ own.mounts.id = char.id
                   /\ char.mounts = own.mounts.mounts

\* the per-character requests in flight
InFlight == tasks.started - tasks.ended

\* C26: at no moment are more than tasks_limit per-character requests in
\* flight, and the first coroutine of a slice starts only when every
\* coroutine of the slices before it has ended.
C26_BatchesBounded ==
    /\ [](InFlight <= tasks_limit)
    /\ [][tasks'.started > tasks.started /\ tasks.started % tasks_limit = 0
              => tasks.ended = tasks.started]_vars

\* the second slice of identify_alts with tasks_limit requests in flight
C26_Witness ==
    /\ call.fn = "identify_alts"
    /\ pc = "gather"
    /\ tasks.i = tasks_limit
    /\ tasks.started = 2 * tasks_limit
    /\ InFlight = tasks_limit

\* C27: the concurrent calls of _request on one client send at most one
\* request to the OAuth token endpoint, whether or not the client holds a
\* token at the start.
C27_OneTokenRequest ==
    token_requests <= 1

\* the reply is a transport error or a response with a status that is retried
Transient(r) == r.err \/ r.status \in {429, 500, 502, 503, 504}

\* C28: a call of _request sends at most max_retries attempts; after an
\* attempt it goes on only if the attempt ended in a transport error or a
\* 429/500/502/503/504 response; any other error status ends the call at
\* once with the empty dict; the first successful response ends it with the
\* decoded body; and when the attempts are used up it returns the empty dict.
C28_RequestRetries ==
    /\ [](attempt <= max_retries)
    /\ [][attempt' = attempt + 1 =>
              LET r == call.replies[attempt'] IN
              /\ pc' = "loop" <=> Transient(r)
              /\ ~Transient(r) /\ ~IsSuccess(r.status) =>
                     /\ pc' = "returned"
                     /\ returned' = [raised |-> "", value |-> EmptyDict]
              /\ ~Transient(r) /\ IsSuccess(r.status) =>
                     /\ pc' = "returned"
                     /\ returned' = [raised |-> "", value |-> r.body]]_vars
    /\ [](pc = "returned" /\ attempt = max_retries
              /\ Transient(call.replies[max_retries])
              => returned = [raised |-> "", value |-> EmptyDict])

\* C29: after every call of has_roster_changed the hash file exists and
\* holds the hash passed to that call; the call returns FALSE exactly when
\* the file existed before it and held that hash, and then the file is not
\* written; in every other case it returns TRUE and writes the file once.
C29_HashFile ==
    /\ [](pc = "returned" =>
              /\ hash_file.exists
              /\ hash_file.text = call.new_hash)
    /\ [][call'.n = call.n + 1 =>
              LET held == hash_file.exists /\ hash_file.text = call'.new_hash IN
              /\ returned' = [raised |-> "", value |-> ~held]
              /\ held => hash_file' = hash_file
              /\ ~held => hash_file'.writes = hash_file.writes + 1]_vars

\* a first call on an absent file, a call with another hash, and a call
\* with that hash again, which writes nothing
C29_Witness ==
    /\ pc = "returned"
    /\ call.n = 3
    /\ hash_file.writes = 2
    /\ returned.value = FALSE

\* the request carries both headers and its signature is one over
\* timestamp + body
Verified(request) ==
    /\ request.signature.present
    /\ ~request.signature.empty
    /\ request.timestamp.present
    /\ request.timestamp.chars # <<>>
    /\ request.signature.hex
    /\ request.signature.signs = request.timestamp.chars \o <<request.body>>

\* C30: a request that lacks one of the two signature headers, or whose
\* signature does not verify over timestamp + body, is answered 401 with no
\* command handling and no repository lookup; the repository is looked up
\* only for a verified type-2 whois command with a non-empty character name.
C30_UnverifiedRejected ==
    pc = "returned" =>
        /\ ~Verified(call) =>
               /\ returned.status = 401
               /\ ~returned.handled
               /\ returned.lookups = 0
        /\ returned.lookups > 0 =>
               /\ Verified(call)
               /\ call.body.type = 2
               /\ call.body.name = "whois"
               /\ call.body.value # ""

====
